---- MODULE Spec2Model ----
\* Verification model of media/libaudioclient/AidlConversion.cpp: the converters
\* between the wire (AIDL) and the legacy (C struct) audio descriptors.
\*
\* Every converter is a function of its arguments, so each one is an operator
\* that is computed the way the code computes it, and a behaviour of the model is
\* a sequence of converter calls: `op` names the converter called last, `arg`
\* holds its arguments, `res` what it returned and `touched` the indexes of the
\* legacy fixed-size array the call read or wrote.
\*
\* A 32-bit quantity (int32_t, unsigned int, a 32-bit enum) is held as the value
\* of its bit pattern read as a two's-complement int32, in INT32_MIN..INT32_MAX;
\* the operators below give the unsigned view the code takes of it.
EXTENDS Integers, Sequences, FiniteSets, TLC

VARIABLES op, arg, res, touched, threads, heap

vars == <<op, arg, res, touched, threads, heap>>

\* ---------------------------------------------------------------------------
\* ConversionResult<T>: a value or the single error code.

BAD_VALUE == -22

Ok(value) == [ok |-> TRUE, v |-> value]

Unexpected == [ok |-> FALSE, v |-> BAD_VALUE]

\* ---------------------------------------------------------------------------
\* 32-bit words.

INT32_MAX == 2147483647

INT32_MIN == -INT32_MAX - 1

WordBits == 32

\* The bit indexes of a word.
BitIndexes == 0 .. (WordBits - 1)

\* 1 << index, for an index below the width (the word with only that bit set).
OneShl(index) == IF index = WordBits - 1 THEN INT32_MIN ELSE 2 ^ index

\* usrc & 1 on the unsigned view.
LowBit(w) == w % 2

\* A shift of the signed word (an arithmetic shift: the top bit stays).
ShiftRight1_signed(w) ==
    IF w >= 0 THEN w \div 2
    ELSE -((-(w + 1)) \div 2) - 1

\* usrc >>= 1 on the unsigned view (a logical shift: the top bit becomes 0).
ShiftRight1(w) ==
    IF w >= 0 THEN w \div 2
    ELSE ((w + INT32_MAX) + 1) \div 2 + 2 ^ (WordBits - 2)

\* w >> n on the unsigned view, for a shift count up to the width.
ShiftRight(w, n) ==
    IF n = 0 THEN w
    ELSE IF n > WordBits - 1 THEN 0
    ELSE ShiftRight1(w) \div (2 ^ (n - 1))

\* Whether bit `index` is set in w.
TestBit(w, index) == LowBit(ShiftRight(w, index)) = 1

\* The set of the indexes of the bits set in the `width` low bits of w, counted
\* from index lo, by halves: w is below 2 ^ width, or is a whole word.
RECURSIVE SetBitsRange(_, _, _)
SetBitsRange(w, lo, width) ==
    IF w = 0 THEN {}
    ELSE IF width = 1 THEN {lo}
    ELSE SetBitsRange(w % (2 ^ (width \div 2)), lo, width \div 2) \cup SetBitsRange(ShiftRight(w, width \div 2), lo + width \div 2, width \div 2)

\* The set of the indexes of the bits set in w.
SetBits(w) == SetBitsRange(w, 0, WordBits)

\* The word whose set bits are those of `bits` from index lo to index hi, by
\* halves.
RECURSIVE WordOfRange(_, _, _)
WordOfRange(bits, lo, hi) ==
    IF lo = hi THEN (IF lo \in bits THEN OneShl(lo) ELSE 0)
    ELSE WordOfRange(bits, lo, (lo + hi) \div 2) + WordOfRange(bits, (lo + hi) \div 2 + 1, hi)

\* The word whose set bits are exactly `bits`.
WordOf(bits) == IF bits = {} THEN 0 ELSE WordOfRange(bits, 0, WordBits - 1)

\* a | b and a & b.
BitOr(a, b) == WordOf(SetBits(a) \cup SetBits(b))

BitAnd(a, b) == WordOf(SetBits(a) \cap SetBits(b))

\* __builtin_popcount.
PopCount(w) == Cardinality(SetBits(w))

\* ---------------------------------------------------------------------------
\* Enum converters.

\* media::AudioPortConfigType (wire enum) and its legacy constants.
AudioPortConfigType_SAMPLE_RATE == 0
AUDIO_PORT_CONFIG_SAMPLE_RATE == 1
AudioPortConfigType_CHANNEL_MASK == 1
AUDIO_PORT_CONFIG_CHANNEL_MASK == 2
AudioPortConfigType_FORMAT == 2
AUDIO_PORT_CONFIG_FORMAT == 4
AudioPortConfigType_GAIN == 3
AUDIO_PORT_CONFIG_GAIN == 8
AudioPortConfigType_FLAGS == 4
AUDIO_PORT_CONFIG_FLAGS == 16

aidl2legacy_AudioPortConfigType(aidl) ==
    CASE aidl = AudioPortConfigType_SAMPLE_RATE -> Ok(AUDIO_PORT_CONFIG_SAMPLE_RATE)
      [] aidl = AudioPortConfigType_CHANNEL_MASK -> Ok(AUDIO_PORT_CONFIG_CHANNEL_MASK)
      [] aidl = AudioPortConfigType_FORMAT -> Ok(AUDIO_PORT_CONFIG_FORMAT)
      [] aidl = AudioPortConfigType_FLAGS -> Ok(AUDIO_PORT_CONFIG_FLAGS)
      [] OTHER -> Unexpected

legacy2aidl_AudioPortConfigType(legacy) ==
    CASE legacy = AUDIO_PORT_CONFIG_SAMPLE_RATE -> Ok(AudioPortConfigType_SAMPLE_RATE)
      [] legacy = AUDIO_PORT_CONFIG_CHANNEL_MASK -> Ok(AudioPortConfigType_CHANNEL_MASK)
      [] legacy = AUDIO_PORT_CONFIG_FORMAT -> Ok(AudioPortConfigType_FORMAT)
      [] legacy = AUDIO_PORT_CONFIG_FLAGS -> Ok(AudioPortConfigType_FLAGS)
      [] OTHER -> Unexpected

\* media::AudioPortRole (wire enum) and its legacy constants.
AudioPortRole_NONE == 0
AUDIO_PORT_ROLE_NONE == 0
AudioPortRole_SOURCE == 1
AUDIO_PORT_ROLE_SOURCE == 1
AudioPortRole_SINK == 2
AUDIO_PORT_ROLE_SINK == 2

aidl2legacy_AudioPortRole_audio_port_role_t(aidl) ==
    CASE aidl = AudioPortRole_NONE -> Ok(AUDIO_PORT_ROLE_NONE)
      [] aidl = AudioPortRole_SOURCE -> Ok(AUDIO_PORT_ROLE_SOURCE)
      [] aidl = AudioPortRole_SINK -> Ok(AUDIO_PORT_ROLE_SINK)
      [] OTHER -> Unexpected

legacy2aidl_audio_port_role_t_AudioPortRole(legacy) ==
    CASE legacy = AUDIO_PORT_ROLE_NONE -> Ok(AudioPortRole_NONE)
      [] legacy = AUDIO_PORT_ROLE_SOURCE -> Ok(AudioPortRole_SOURCE)
      [] legacy = AUDIO_PORT_ROLE_SINK -> Ok(AudioPortRole_SINK)
      [] OTHER -> Unexpected

\* media::AudioPortType (wire enum) and its legacy constants.
AudioPortType_NONE == 0
AUDIO_PORT_TYPE_NONE == 0
AudioPortType_DEVICE == 1
AUDIO_PORT_TYPE_DEVICE == 1
AudioPortType_MIX == 2
AUDIO_PORT_TYPE_MIX == 2
AudioPortType_SESSION == 3
AUDIO_PORT_TYPE_SESSION == 3

aidl2legacy_AudioPortType_audio_port_type_t(aidl) ==
    CASE aidl = AudioPortType_NONE -> Ok(AUDIO_PORT_TYPE_NONE)
      [] aidl = AudioPortType_DEVICE -> Ok(AUDIO_PORT_TYPE_DEVICE)
      [] aidl = AudioPortType_MIX -> Ok(AUDIO_PORT_TYPE_MIX)
      [] aidl = AudioPortType_SESSION -> Ok(AUDIO_PORT_TYPE_SESSION)
      [] OTHER -> Unexpected

legacy2aidl_audio_port_type_t_AudioPortType(legacy) ==
    CASE legacy = AUDIO_PORT_TYPE_NONE -> Ok(AudioPortType_NONE)
      [] legacy = AUDIO_PORT_TYPE_DEVICE -> Ok(AudioPortType_DEVICE)
      [] legacy = AUDIO_PORT_TYPE_MIX -> Ok(AudioPortType_MIX)
      [] legacy = AUDIO_PORT_TYPE_SESSION -> Ok(AudioPortType_SESSION)
      [] OTHER -> Unexpected

\* media::AudioGainMode (wire enum) and its legacy constants.
AudioGainMode_JOINT == 0
AUDIO_GAIN_MODE_JOINT == 1
AudioGainMode_CHANNELS == 1
AUDIO_GAIN_MODE_CHANNELS == 2
AudioGainMode_RAMP == 2
AUDIO_GAIN_MODE_RAMP == 4

aidl2legacy_AudioGainMode_int(aidl) ==
    CASE aidl = AudioGainMode_JOINT -> Ok(AUDIO_GAIN_MODE_JOINT)
      [] aidl = AudioGainMode_CHANNELS -> Ok(AUDIO_GAIN_MODE_CHANNELS)
      [] aidl = AudioGainMode_RAMP -> Ok(AUDIO_GAIN_MODE_RAMP)
      [] OTHER -> Unexpected

legacy2aidl_int_AudioGainMode(legacy) ==
    CASE legacy = AUDIO_GAIN_MODE_JOINT -> Ok(AudioGainMode_JOINT)
      [] legacy = AUDIO_GAIN_MODE_CHANNELS -> Ok(AudioGainMode_CHANNELS)
      [] legacy = AUDIO_GAIN_MODE_RAMP -> Ok(AudioGainMode_RAMP)
      [] OTHER -> Unexpected

\* media::AudioInputFlags (wire enum) and its legacy constants.
AudioInputFlags_FAST == 0
AUDIO_INPUT_FLAG_FAST == 1
AudioInputFlags_HW_HOTWORD == 1
AUDIO_INPUT_FLAG_HW_HOTWORD == 2
AudioInputFlags_RAW == 2
AUDIO_INPUT_FLAG_RAW == 4
AudioInputFlags_SYNC == 3
AUDIO_INPUT_FLAG_SYNC == 8
AudioInputFlags_MMAP_NOIRQ == 4
AUDIO_INPUT_FLAG_MMAP_NOIRQ == 16
AudioInputFlags_VOIP_TX == 5
AUDIO_INPUT_FLAG_VOIP_TX == 32
AudioInputFlags_HW_AV_SYNC == 6
AUDIO_INPUT_FLAG_HW_AV_SYNC == 64
AudioInputFlags_DIRECT == 7
AUDIO_INPUT_FLAG_DIRECT == 128

aidl2legacy_AudioInputFlags_audio_input_flags_t(aidl) ==
    CASE aidl = AudioInputFlags_FAST -> Ok(AUDIO_INPUT_FLAG_FAST)
      [] aidl = AudioInputFlags_HW_HOTWORD -> Ok(AUDIO_INPUT_FLAG_HW_HOTWORD)
      [] aidl = AudioInputFlags_RAW -> Ok(AUDIO_INPUT_FLAG_RAW)
      [] aidl = AudioInputFlags_SYNC -> Ok(AUDIO_INPUT_FLAG_SYNC)
      [] aidl = AudioInputFlags_MMAP_NOIRQ -> Ok(AUDIO_INPUT_FLAG_MMAP_NOIRQ)
      [] aidl = AudioInputFlags_VOIP_TX -> Ok(AUDIO_INPUT_FLAG_VOIP_TX)
      [] aidl = AudioInputFlags_HW_AV_SYNC -> Ok(AUDIO_INPUT_FLAG_HW_AV_SYNC)
      [] aidl = AudioInputFlags_DIRECT -> Ok(AUDIO_INPUT_FLAG_DIRECT)
      [] OTHER -> Unexpected

legacy2aidl_audio_input_flags_t_AudioInputFlags(legacy) ==
    CASE legacy = AUDIO_INPUT_FLAG_FAST -> Ok(AudioInputFlags_FAST)
      [] legacy = AUDIO_INPUT_FLAG_HW_HOTWORD -> Ok(AudioInputFlags_HW_HOTWORD)
      [] legacy = AUDIO_INPUT_FLAG_RAW -> Ok(AudioInputFlags_RAW)
      [] legacy = AUDIO_INPUT_FLAG_SYNC -> Ok(AudioInputFlags_SYNC)
      [] legacy = AUDIO_INPUT_FLAG_MMAP_NOIRQ -> Ok(AudioInputFlags_MMAP_NOIRQ)
      [] legacy = AUDIO_INPUT_FLAG_VOIP_TX -> Ok(AudioInputFlags_VOIP_TX)
      [] legacy = AUDIO_INPUT_FLAG_HW_AV_SYNC -> Ok(AudioInputFlags_HW_AV_SYNC)
      [] legacy = AUDIO_INPUT_FLAG_DIRECT -> Ok(AudioInputFlags_DIRECT)
      [] OTHER -> Unexpected

\* media::AudioOutputFlags (wire enum) and its legacy constants.
AudioOutputFlags_DIRECT == 0
AUDIO_OUTPUT_FLAG_DIRECT == 1
AudioOutputFlags_PRIMARY == 1
AUDIO_OUTPUT_FLAG_PRIMARY == 2
AudioOutputFlags_FAST == 2
AUDIO_OUTPUT_FLAG_FAST == 4
AudioOutputFlags_DEEP_BUFFER == 3
AUDIO_OUTPUT_FLAG_DEEP_BUFFER == 8
AudioOutputFlags_COMPRESS_OFFLOAD == 4
AUDIO_OUTPUT_FLAG_COMPRESS_OFFLOAD == 16
AudioOutputFlags_NON_BLOCKING == 5
AUDIO_OUTPUT_FLAG_NON_BLOCKING == 32
AudioOutputFlags_HW_AV_SYNC == 6
AUDIO_OUTPUT_FLAG_HW_AV_SYNC == 64
AudioOutputFlags_TTS == 7
AUDIO_OUTPUT_FLAG_TTS == 128
AudioOutputFlags_RAW == 8
AUDIO_OUTPUT_FLAG_RAW == 256
AudioOutputFlags_SYNC == 9
AUDIO_OUTPUT_FLAG_SYNC == 512
AudioOutputFlags_IEC958_NONAUDIO == 10
AUDIO_OUTPUT_FLAG_IEC958_NONAUDIO == 1024
AudioOutputFlags_DIRECT_PCM == 11
AUDIO_OUTPUT_FLAG_DIRECT_PCM == 8192
AudioOutputFlags_MMAP_NOIRQ == 12
AUDIO_OUTPUT_FLAG_MMAP_NOIRQ == 16384
AudioOutputFlags_VOIP_RX == 13
AUDIO_OUTPUT_FLAG_VOIP_RX == 32768
AudioOutputFlags_INCALL_MUSIC == 14
AUDIO_OUTPUT_FLAG_INCALL_MUSIC == 65536

aidl2legacy_AudioOutputFlags_audio_output_flags_t(aidl) ==
    CASE aidl = AudioOutputFlags_DIRECT -> Ok(AUDIO_OUTPUT_FLAG_DIRECT)
      [] aidl = AudioOutputFlags_PRIMARY -> Ok(AUDIO_OUTPUT_FLAG_PRIMARY)
      [] aidl = AudioOutputFlags_FAST -> Ok(AUDIO_OUTPUT_FLAG_FAST)
      [] aidl = AudioOutputFlags_DEEP_BUFFER -> Ok(AUDIO_OUTPUT_FLAG_DEEP_BUFFER)
      [] aidl = AudioOutputFlags_COMPRESS_OFFLOAD -> Ok(AUDIO_OUTPUT_FLAG_COMPRESS_OFFLOAD)
      [] aidl = AudioOutputFlags_NON_BLOCKING -> Ok(AUDIO_OUTPUT_FLAG_NON_BLOCKING)
      [] aidl = AudioOutputFlags_HW_AV_SYNC -> Ok(AUDIO_OUTPUT_FLAG_HW_AV_SYNC)
      [] aidl = AudioOutputFlags_TTS -> Ok(AUDIO_OUTPUT_FLAG_TTS)
      [] aidl = AudioOutputFlags_RAW -> Ok(AUDIO_OUTPUT_FLAG_RAW)
      [] aidl = AudioOutputFlags_SYNC -> Ok(AUDIO_OUTPUT_FLAG_SYNC)
      [] aidl = AudioOutputFlags_IEC958_NONAUDIO -> Ok(AUDIO_OUTPUT_FLAG_IEC958_NONAUDIO)
      [] aidl = AudioOutputFlags_DIRECT_PCM -> Ok(AUDIO_OUTPUT_FLAG_DIRECT_PCM)
      [] aidl = AudioOutputFlags_MMAP_NOIRQ -> Ok(AUDIO_OUTPUT_FLAG_MMAP_NOIRQ)
      [] aidl = AudioOutputFlags_VOIP_RX -> Ok(AUDIO_OUTPUT_FLAG_VOIP_RX)
      [] aidl = AudioOutputFlags_INCALL_MUSIC -> Ok(AUDIO_OUTPUT_FLAG_INCALL_MUSIC)
      [] OTHER -> Unexpected

legacy2aidl_audio_output_flags_t_AudioOutputFlags(legacy) ==
    CASE legacy = AUDIO_OUTPUT_FLAG_DIRECT -> Ok(AudioOutputFlags_DIRECT)
      [] legacy = AUDIO_OUTPUT_FLAG_PRIMARY -> Ok(AudioOutputFlags_PRIMARY)
      [] legacy = AUDIO_OUTPUT_FLAG_FAST -> Ok(AudioOutputFlags_FAST)
      [] legacy = AUDIO_OUTPUT_FLAG_DEEP_BUFFER -> Ok(AudioOutputFlags_DEEP_BUFFER)
      [] legacy = AUDIO_OUTPUT_FLAG_COMPRESS_OFFLOAD -> Ok(AudioOutputFlags_COMPRESS_OFFLOAD)
      [] legacy = AUDIO_OUTPUT_FLAG_NON_BLOCKING -> Ok(AudioOutputFlags_NON_BLOCKING)
      [] legacy = AUDIO_OUTPUT_FLAG_HW_AV_SYNC -> Ok(AudioOutputFlags_HW_AV_SYNC)
      [] legacy = AUDIO_OUTPUT_FLAG_TTS -> Ok(AudioOutputFlags_TTS)
      [] legacy = AUDIO_OUTPUT_FLAG_RAW -> Ok(AudioOutputFlags_RAW)
      [] legacy = AUDIO_OUTPUT_FLAG_SYNC -> Ok(AudioOutputFlags_SYNC)
      [] legacy = AUDIO_OUTPUT_FLAG_IEC958_NONAUDIO -> Ok(AudioOutputFlags_IEC958_NONAUDIO)
      [] legacy = AUDIO_OUTPUT_FLAG_DIRECT_PCM -> Ok(AudioOutputFlags_DIRECT_PCM)
      [] legacy = AUDIO_OUTPUT_FLAG_MMAP_NOIRQ -> Ok(AudioOutputFlags_MMAP_NOIRQ)
      [] legacy = AUDIO_OUTPUT_FLAG_VOIP_RX -> Ok(AudioOutputFlags_VOIP_RX)
      [] legacy = AUDIO_OUTPUT_FLAG_INCALL_MUSIC -> Ok(AudioOutputFlags_INCALL_MUSIC)
      [] OTHER -> Unexpected

\* media::AudioStreamType (wire enum) and its legacy constants.
AudioStreamType_DEFAULT == -1
AUDIO_STREAM_DEFAULT == -1
AudioStreamType_VOICE_CALL == 0
AUDIO_STREAM_VOICE_CALL == 0
AudioStreamType_SYSTEM == 1
AUDIO_STREAM_SYSTEM == 1
AudioStreamType_RING == 2
AUDIO_STREAM_RING == 2
AudioStreamType_MUSIC == 3
AUDIO_STREAM_MUSIC == 3
AudioStreamType_ALARM == 4
AUDIO_STREAM_ALARM == 4
AudioStreamType_NOTIFICATION == 5
AUDIO_STREAM_NOTIFICATION == 5
AudioStreamType_BLUETOOTH_SCO == 6
AUDIO_STREAM_BLUETOOTH_SCO == 6
AudioStreamType_ENFORCED_AUDIBLE == 7
AUDIO_STREAM_ENFORCED_AUDIBLE == 7
AudioStreamType_DTMF == 8
AUDIO_STREAM_DTMF == 8
AudioStreamType_TTS == 9
AUDIO_STREAM_TTS == 9
AudioStreamType_ACCESSIBILITY == 10
AUDIO_STREAM_ACCESSIBILITY == 10
AudioStreamType_ASSISTANT == 11
AUDIO_STREAM_ASSISTANT == 11
AudioStreamType_REROUTING == 12
AUDIO_STREAM_REROUTING == 12
AudioStreamType_PATCH == 13
AUDIO_STREAM_PATCH == 13
AudioStreamType_CALL_ASSISTANT == 14
AUDIO_STREAM_CALL_ASSISTANT == 14

aidl2legacy_AudioStreamType_audio_stream_type_t(aidl) ==
    CASE aidl = AudioStreamType_DEFAULT -> Ok(AUDIO_STREAM_DEFAULT)
      [] aidl = AudioStreamType_VOICE_CALL -> Ok(AUDIO_STREAM_VOICE_CALL)
      [] aidl = AudioStreamType_SYSTEM -> Ok(AUDIO_STREAM_SYSTEM)
      [] aidl = AudioStreamType_RING -> Ok(AUDIO_STREAM_RING)
      [] aidl = AudioStreamType_MUSIC -> Ok(AUDIO_STREAM_MUSIC)
      [] aidl = AudioStreamType_ALARM -> Ok(AUDIO_STREAM_ALARM)
      [] aidl = AudioStreamType_NOTIFICATION -> Ok(AUDIO_STREAM_NOTIFICATION)
      [] aidl = AudioStreamType_BLUETOOTH_SCO -> Ok(AUDIO_STREAM_BLUETOOTH_SCO)
      [] aidl = AudioStreamType_ENFORCED_AUDIBLE -> Ok(AUDIO_STREAM_ENFORCED_AUDIBLE)
      [] aidl = AudioStreamType_DTMF -> Ok(AUDIO_STREAM_DTMF)
      [] aidl = AudioStreamType_TTS -> Ok(AUDIO_STREAM_TTS)
      [] aidl = AudioStreamType_ACCESSIBILITY -> Ok(AUDIO_STREAM_ACCESSIBILITY)
      [] aidl = AudioStreamType_ASSISTANT -> Ok(AUDIO_STREAM_ASSISTANT)
      [] aidl = AudioStreamType_REROUTING -> Ok(AUDIO_STREAM_REROUTING)
      [] aidl = AudioStreamType_PATCH -> Ok(AUDIO_STREAM_PATCH)
      [] aidl = AudioStreamType_CALL_ASSISTANT -> Ok(AUDIO_STREAM_CALL_ASSISTANT)
      [] OTHER -> Unexpected

legacy2aidl_audio_stream_type_t_AudioStreamType(legacy) ==
    CASE legacy = AUDIO_STREAM_DEFAULT -> Ok(AudioStreamType_DEFAULT)
      [] legacy = AUDIO_STREAM_VOICE_CALL -> Ok(AudioStreamType_VOICE_CALL)
      [] legacy = AUDIO_STREAM_SYSTEM -> Ok(AudioStreamType_SYSTEM)
      [] legacy = AUDIO_STREAM_RING -> Ok(AudioStreamType_RING)
      [] legacy = AUDIO_STREAM_MUSIC -> Ok(AudioStreamType_MUSIC)
      [] legacy = AUDIO_STREAM_ALARM -> Ok(AudioStreamType_ALARM)
      [] legacy = AUDIO_STREAM_NOTIFICATION -> Ok(AudioStreamType_NOTIFICATION)
      [] legacy = AUDIO_STREAM_BLUETOOTH_SCO -> Ok(AudioStreamType_BLUETOOTH_SCO)
      [] legacy = AUDIO_STREAM_ENFORCED_AUDIBLE -> Ok(AudioStreamType_ENFORCED_AUDIBLE)
      [] legacy = AUDIO_STREAM_DTMF -> Ok(AudioStreamType_DTMF)
      [] legacy = AUDIO_STREAM_TTS -> Ok(AudioStreamType_TTS)
      [] legacy = AUDIO_STREAM_ACCESSIBILITY -> Ok(AudioStreamType_ACCESSIBILITY)
      [] legacy = AUDIO_STREAM_ASSISTANT -> Ok(AudioStreamType_ASSISTANT)
      [] legacy = AUDIO_STREAM_REROUTING -> Ok(AudioStreamType_REROUTING)
      [] legacy = AUDIO_STREAM_PATCH -> Ok(AudioStreamType_PATCH)
      [] legacy = AUDIO_STREAM_CALL_ASSISTANT -> Ok(AudioStreamType_CALL_ASSISTANT)
      [] OTHER -> Unexpected

\* media::AudioSourceType (wire enum) and its legacy constants.
AudioSourceType_INVALID == -1
AUDIO_SOURCE_INVALID == -1
AudioSourceType_DEFAULT == 0
AUDIO_SOURCE_DEFAULT == 0
AudioSourceType_MIC == 1
AUDIO_SOURCE_MIC == 1
AudioSourceType_VOICE_UPLINK == 2
AUDIO_SOURCE_VOICE_UPLINK == 2
AudioSourceType_VOICE_DOWNLINK == 3
AUDIO_SOURCE_VOICE_DOWNLINK == 3
AudioSourceType_VOICE_CALL == 4
AUDIO_SOURCE_VOICE_CALL == 4
AudioSourceType_CAMCORDER == 5
AUDIO_SOURCE_CAMCORDER == 5
AudioSourceType_VOICE_RECOGNITION == 6
AUDIO_SOURCE_VOICE_RECOGNITION == 6
AudioSourceType_VOICE_COMMUNICATION == 7
AUDIO_SOURCE_VOICE_COMMUNICATION == 7
AudioSourceType_REMOTE_SUBMIX == 8
AUDIO_SOURCE_REMOTE_SUBMIX == 8
AudioSourceType_UNPROCESSED == 9
AUDIO_SOURCE_UNPROCESSED == 9
AudioSourceType_VOICE_PERFORMANCE == 10
AUDIO_SOURCE_VOICE_PERFORMANCE == 10
AudioSourceType_ECHO_REFERENCE == 1997
AUDIO_SOURCE_ECHO_REFERENCE == 1997
AudioSourceType_FM_TUNER == 1998
AUDIO_SOURCE_FM_TUNER == 1998
AudioSourceType_HOTWORD == 1999
AUDIO_SOURCE_HOTWORD == 1999

aidl2legacy_AudioSourceType_audio_source_t(aidl) ==
    CASE aidl = AudioSourceType_INVALID -> Ok(AUDIO_SOURCE_INVALID)
      [] aidl = AudioSourceType_DEFAULT -> Ok(AUDIO_SOURCE_DEFAULT)
      [] aidl = AudioSourceType_MIC -> Ok(AUDIO_SOURCE_MIC)
      [] aidl = AudioSourceType_VOICE_UPLINK -> Ok(AUDIO_SOURCE_VOICE_UPLINK)
      [] aidl = AudioSourceType_VOICE_DOWNLINK -> Ok(AUDIO_SOURCE_VOICE_DOWNLINK)
      [] aidl = AudioSourceType_VOICE_CALL -> Ok(AUDIO_SOURCE_VOICE_CALL)
      [] aidl = AudioSourceType_CAMCORDER -> Ok(AUDIO_SOURCE_CAMCORDER)
      [] aidl = AudioSourceType_VOICE_RECOGNITION -> Ok(AUDIO_SOURCE_VOICE_RECOGNITION)
      [] aidl = AudioSourceType_VOICE_COMMUNICATION -> Ok(AUDIO_SOURCE_VOICE_COMMUNICATION)
      [] aidl = AudioSourceType_REMOTE_SUBMIX -> Ok(AUDIO_SOURCE_REMOTE_SUBMIX)
      [] aidl = AudioSourceType_UNPROCESSED -> Ok(AUDIO_SOURCE_UNPROCESSED)
      [] aidl = AudioSourceType_VOICE_PERFORMANCE -> Ok(AUDIO_SOURCE_VOICE_PERFORMANCE)
      [] aidl = AudioSourceType_ECHO_REFERENCE -> Ok(AUDIO_SOURCE_ECHO_REFERENCE)
      [] aidl = AudioSourceType_FM_TUNER -> Ok(AUDIO_SOURCE_FM_TUNER)
      [] aidl = AudioSourceType_HOTWORD -> Ok(AUDIO_SOURCE_HOTWORD)
      [] OTHER -> Unexpected

legacy2aidl_audio_source_t_AudioSourceType(legacy) ==
    CASE legacy = AUDIO_SOURCE_INVALID -> Ok(AudioSourceType_INVALID)
      [] legacy = AUDIO_SOURCE_DEFAULT -> Ok(AudioSourceType_DEFAULT)
      [] legacy = AUDIO_SOURCE_MIC -> Ok(AudioSourceType_MIC)
      [] legacy = AUDIO_SOURCE_VOICE_UPLINK -> Ok(AudioSourceType_VOICE_UPLINK)
      [] legacy = AUDIO_SOURCE_VOICE_DOWNLINK -> Ok(AudioSourceType_VOICE_DOWNLINK)
      [] legacy = AUDIO_SOURCE_VOICE_CALL -> Ok(AudioSourceType_VOICE_CALL)
      [] legacy = AUDIO_SOURCE_CAMCORDER -> Ok(AudioSourceType_CAMCORDER)
      [] legacy = AUDIO_SOURCE_VOICE_RECOGNITION -> Ok(AudioSourceType_VOICE_RECOGNITION)
      [] legacy = AUDIO_SOURCE_VOICE_COMMUNICATION -> Ok(AudioSourceType_VOICE_COMMUNICATION)
      [] legacy = AUDIO_SOURCE_REMOTE_SUBMIX -> Ok(AudioSourceType_REMOTE_SUBMIX)
      [] legacy = AUDIO_SOURCE_UNPROCESSED -> Ok(AudioSourceType_UNPROCESSED)
      [] legacy = AUDIO_SOURCE_VOICE_PERFORMANCE -> Ok(AudioSourceType_VOICE_PERFORMANCE)
      [] legacy = AUDIO_SOURCE_ECHO_REFERENCE -> Ok(AudioSourceType_ECHO_REFERENCE)
      [] legacy = AUDIO_SOURCE_FM_TUNER -> Ok(AudioSourceType_FM_TUNER)
      [] legacy = AUDIO_SOURCE_HOTWORD -> Ok(AudioSourceType_HOTWORD)
      [] OTHER -> Unexpected

\* media::AudioFlag (wire enum) and its legacy constants.
AudioFlag_AUDIBILITY_ENFORCED == 0
AUDIO_FLAG_NONE == 0
AUDIO_FLAG_AUDIBILITY_ENFORCED == 1
AudioFlag_SECURE == 1
AUDIO_FLAG_SECURE == 2
AudioFlag_SCO == 2
AUDIO_FLAG_SCO == 4
AudioFlag_BEACON == 3
AUDIO_FLAG_BEACON == 8
AudioFlag_HW_AV_SYNC == 4
AUDIO_FLAG_HW_AV_SYNC == 16
AudioFlag_HW_HOTWORD == 5
AUDIO_FLAG_HW_HOTWORD == 32
AudioFlag_BYPASS_INTERRUPTION_POLICY == 6
AUDIO_FLAG_BYPASS_INTERRUPTION_POLICY == 64
AudioFlag_BYPASS_MUTE == 7
AUDIO_FLAG_BYPASS_MUTE == 128
AudioFlag_LOW_LATENCY == 8
AUDIO_FLAG_LOW_LATENCY == 256
AudioFlag_DEEP_BUFFER == 9
AUDIO_FLAG_DEEP_BUFFER == 512
AudioFlag_NO_MEDIA_PROJECTION == 10
AUDIO_FLAG_NO_MEDIA_PROJECTION == 1024
AudioFlag_MUTE_HAPTIC == 11
AUDIO_FLAG_MUTE_HAPTIC == 2048
AudioFlag_NO_SYSTEM_CAPTURE == 12
AUDIO_FLAG_NO_SYSTEM_CAPTURE == 4096
AudioFlag_CAPTURE_PRIVATE == 13
AUDIO_FLAG_CAPTURE_PRIVATE == 8192

aidl2legacy_AudioFlag_audio_flags_mask_t(aidl) ==
    CASE aidl = AudioFlag_AUDIBILITY_ENFORCED -> Ok(AUDIO_FLAG_AUDIBILITY_ENFORCED)
      [] aidl = AudioFlag_SECURE -> Ok(AUDIO_FLAG_SECURE)
      [] aidl = AudioFlag_SCO -> Ok(AUDIO_FLAG_SCO)
      [] aidl = AudioFlag_BEACON -> Ok(AUDIO_FLAG_BEACON)
      [] aidl = AudioFlag_HW_AV_SYNC -> Ok(AUDIO_FLAG_HW_AV_SYNC)
      [] aidl = AudioFlag_HW_HOTWORD -> Ok(AUDIO_FLAG_HW_HOTWORD)
      [] aidl = AudioFlag_BYPASS_INTERRUPTION_POLICY -> Ok(AUDIO_FLAG_BYPASS_INTERRUPTION_POLICY)
      [] aidl = AudioFlag_BYPASS_MUTE -> Ok(AUDIO_FLAG_BYPASS_MUTE)
      [] aidl = AudioFlag_LOW_LATENCY -> Ok(AUDIO_FLAG_LOW_LATENCY)
      [] aidl = AudioFlag_DEEP_BUFFER -> Ok(AUDIO_FLAG_DEEP_BUFFER)
      [] aidl = AudioFlag_NO_MEDIA_PROJECTION -> Ok(AUDIO_FLAG_NO_MEDIA_PROJECTION)
      [] aidl = AudioFlag_MUTE_HAPTIC -> Ok(AUDIO_FLAG_MUTE_HAPTIC)
      [] aidl = AudioFlag_NO_SYSTEM_CAPTURE -> Ok(AUDIO_FLAG_NO_SYSTEM_CAPTURE)
      [] aidl = AudioFlag_CAPTURE_PRIVATE -> Ok(AUDIO_FLAG_CAPTURE_PRIVATE)
      [] OTHER -> Unexpected

legacy2aidl_audio_flags_mask_t_AudioFlag(legacy) ==
    CASE legacy = AUDIO_FLAG_NONE -> Unexpected
      [] legacy = AUDIO_FLAG_AUDIBILITY_ENFORCED -> Ok(AudioFlag_AUDIBILITY_ENFORCED)
      [] legacy = AUDIO_FLAG_SECURE -> Ok(AudioFlag_SECURE)
      [] legacy = AUDIO_FLAG_SCO -> Ok(AudioFlag_SCO)
      [] legacy = AUDIO_FLAG_BEACON -> Ok(AudioFlag_BEACON)
      [] legacy = AUDIO_FLAG_HW_AV_SYNC -> Ok(AudioFlag_HW_AV_SYNC)
      [] legacy = AUDIO_FLAG_HW_HOTWORD -> Ok(AudioFlag_HW_HOTWORD)
      [] legacy = AUDIO_FLAG_BYPASS_INTERRUPTION_POLICY -> Ok(AudioFlag_BYPASS_INTERRUPTION_POLICY)
      [] legacy = AUDIO_FLAG_BYPASS_MUTE -> Ok(AudioFlag_BYPASS_MUTE)
      [] legacy = AUDIO_FLAG_LOW_LATENCY -> Ok(AudioFlag_LOW_LATENCY)
      [] legacy = AUDIO_FLAG_DEEP_BUFFER -> Ok(AudioFlag_DEEP_BUFFER)
      [] legacy = AUDIO_FLAG_NO_MEDIA_PROJECTION -> Ok(AudioFlag_NO_MEDIA_PROJECTION)
      [] legacy = AUDIO_FLAG_MUTE_HAPTIC -> Ok(AudioFlag_MUTE_HAPTIC)
      [] legacy = AUDIO_FLAG_NO_SYSTEM_CAPTURE -> Ok(AudioFlag_NO_SYSTEM_CAPTURE)
      [] legacy = AUDIO_FLAG_CAPTURE_PRIVATE -> Ok(AudioFlag_CAPTURE_PRIVATE)
      [] OTHER -> Unexpected

\* ---------------------------------------------------------------------------
\* Utilities for handling bitmasks.

\* index2enum_index<Enum>: the enum value is the bit index.
index2enum_index(index) == index

\* index2enum_bitmask<Enum>: the enum value is the single-bit mask.
index2enum_bitmask(index) == OneShl(index)

\* enumToMask_bitmask<Mask, Enum>: the enum value is already the mask.
enumToMask_bitmask(e) == e

\* enumToMask_index<Mask, Enum>: unsigned 1 << e.
enumToMask_index(e) == OneShl(e)

\* The while loop of convertBitmask. The three adapters are functions on Int.
RECURSIVE convertBitmaskLoop(_, _, _, _, _, _)
convertBitmaskLoop(usrc, srcBitIndex, dest, enumConversion, srcIndexToEnum, destEnumToMask) ==
    IF usrc = 0 THEN Ok(dest)
    ELSE IF LowBit(usrc) = 1
         THEN LET srcEnum == srcIndexToEnum[srcBitIndex]
                  destEnum == enumConversion[srcEnum]
              IN  IF ~destEnum.ok THEN Unexpected
                  ELSE convertBitmaskLoop(ShiftRight1(usrc), srcBitIndex + 1, BitOr(dest, destEnumToMask[destEnum.v]), enumConversion, srcIndexToEnum, destEnumToMask)
         ELSE convertBitmaskLoop(ShiftRight1(usrc), srcBitIndex + 1, dest, enumConversion, srcIndexToEnum, destEnumToMask)

\* A loop that skips the bits the per-bit converter rejects instead of failing.
RECURSIVE convertBitmaskLoop_skipRejected(_, _, _, _, _, _)
convertBitmaskLoop_skipRejected(usrc, srcBitIndex, dest, enumConversion, srcIndexToEnum, destEnumToMask) ==
    IF usrc = 0 THEN Ok(dest)
    ELSE IF LowBit(usrc) = 1 /\ enumConversion[srcIndexToEnum[srcBitIndex]].ok
         THEN convertBitmaskLoop_skipRejected(ShiftRight1(usrc), srcBitIndex + 1, BitOr(dest, destEnumToMask[enumConversion[srcIndexToEnum[srcBitIndex]].v]), enumConversion, srcIndexToEnum, destEnumToMask)
         ELSE convertBitmaskLoop_skipRejected(ShiftRight1(usrc), srcBitIndex + 1, dest, enumConversion, srcIndexToEnum, destEnumToMask)

convertBitmask_skipRejected(src, enumConversion, srcIndexToEnum, destEnumToMask) ==
    convertBitmaskLoop_skipRejected(src, 0, 0, enumConversion, srcIndexToEnum, destEnumToMask)

\* convertBitmask that hands an empty mask to the per-bit converter as one enum
\* value.
convertBitmask_emptyAsEnum(src, enumConversion, srcIndexToEnum, destEnumToMask) ==
    IF src # 0 THEN convertBitmaskLoop(src, 0, 0, enumConversion, srcIndexToEnum, destEnumToMask)
    ELSE IF ~enumConversion[src].ok THEN enumConversion[src]
    ELSE Ok(0)

convertBitmask(src, enumConversion, srcIndexToEnum, destEnumToMask) ==
    convertBitmaskLoop(src, 0, 0, enumConversion, srcIndexToEnum, destEnumToMask)

\* bitmaskIsSet(mask, index): mask & enumToMask_index(index).
bitmaskIsSet(mask, index) == BitAnd(mask, enumToMask_index(index)) # 0

\* The adapters as the function objects handed to convertBitmask.
fn_index2enum_index == [index \in Int |-> index2enum_index(index)]

fn_index2enum_bitmask == [index \in Int |-> index2enum_bitmask(index)]

fn_enumToMask_bitmask == [e \in Int |-> enumToMask_bitmask(e)]

fn_enumToMask_index == [e \in Int |-> enumToMask_index(e)]

\* ---------------------------------------------------------------------------
\* The bitmask converters.

aidl2legacy_int32_t_config_mask(aidl) ==
    convertBitmask(aidl, [e \in Int |-> aidl2legacy_AudioPortConfigType(e)], fn_index2enum_index, fn_enumToMask_bitmask)

legacy2aidl_config_mask_int32_t(legacy) ==
    convertBitmask(legacy, [e \in Int |-> legacy2aidl_AudioPortConfigType(e)], fn_index2enum_bitmask, fn_enumToMask_index)

aidl2legacy_int32_t_audio_gain_mode_t(aidl) ==
    convertBitmask(aidl, [e \in Int |-> aidl2legacy_AudioGainMode_int(e)], fn_index2enum_index, fn_enumToMask_bitmask)

legacy2aidl_audio_gain_mode_t_int32_t(legacy) ==
    convertBitmask(legacy, [e \in Int |-> legacy2aidl_int_AudioGainMode(e)], fn_index2enum_bitmask, fn_enumToMask_index)

aidl2legacy_audio_input_flags_mask(aidl) ==
    convertBitmask(aidl, [e \in Int |-> aidl2legacy_AudioInputFlags_audio_input_flags_t(e)], fn_index2enum_index, fn_enumToMask_bitmask)

legacy2aidl_audio_input_flags_mask(legacy) ==
    convertBitmask(legacy, [e \in Int |-> legacy2aidl_audio_input_flags_t_AudioInputFlags(e)], fn_index2enum_bitmask, fn_enumToMask_index)

aidl2legacy_audio_output_flags_mask(aidl) ==
    convertBitmask(aidl, [e \in Int |-> aidl2legacy_AudioOutputFlags_audio_output_flags_t(e)], fn_index2enum_index, fn_enumToMask_bitmask)

\* The mask built with the adapter of a mask-based destination enum.
legacy2aidl_audio_output_flags_mask_asBitmask(legacy) ==
    convertBitmask(legacy, [e \in Int |-> legacy2aidl_audio_output_flags_t_AudioOutputFlags(e)], fn_index2enum_bitmask, fn_enumToMask_bitmask)

legacy2aidl_audio_output_flags_mask(legacy) ==
    convertBitmask(legacy, [e \in Int |-> legacy2aidl_audio_output_flags_t_AudioOutputFlags(e)], fn_index2enum_bitmask, fn_enumToMask_index)

aidl2legacy_int32_t_audio_flags_mask_t_mask(aidl) ==
    convertBitmask(aidl, [e \in Int |-> aidl2legacy_AudioFlag_audio_flags_mask_t(e)], fn_index2enum_index, fn_enumToMask_bitmask)

legacy2aidl_audio_flags_mask_t_int32_t_mask(legacy) ==
    convertBitmask(legacy, [e \in Int |-> legacy2aidl_audio_flags_mask_t_AudioFlag(e)], fn_index2enum_bitmask, fn_enumToMask_index)

\* ---------------------------------------------------------------------------
\* convertReinterpret<To, From>: a static_cast between two integer types of the
\* same size, which keeps every one of the 32 bits whatever the signedness of
\* the two types.
convertReinterpret(from) == WordOf(SetBits(from))

\* convertIntegral<To>(from) for the pairs of types this file uses. A value of an
\* unsigned 32-bit type is not below 0; its pattern is negative exactly when its
\* value is above INT32_MAX.
convertIntegral_int32_to_int(from) == Ok(from)

convertIntegral_int32_to_uint32(from) == IF from < 0 THEN Unexpected ELSE Ok(from)

convertIntegral_uint32_to_int32(from) == IF from < 0 THEN Unexpected ELSE Ok(from)

\* ---------------------------------------------------------------------------
\* enum class Direction { INPUT, OUTPUT }.

Direction_INPUT == 0

Direction_OUTPUT == 1

\* The derivation with (SOURCE, MIX) left out of the valid pairs.
direction_AudioPortRole_AudioPortType_sourceMixInvalid(role, type) ==
    CASE type = AudioPortType_DEVICE ->
           (CASE role = AudioPortRole_SOURCE -> Ok(Direction_INPUT)
              [] role = AudioPortRole_SINK -> Ok(Direction_OUTPUT)
              [] OTHER -> Unexpected)
      [] type = AudioPortType_MIX ->
           (CASE role = AudioPortRole_SINK -> Ok(Direction_INPUT)
              [] OTHER -> Unexpected)
      [] OTHER -> Unexpected

\* direction(media::AudioPortRole, media::AudioPortType).
direction_AudioPortRole_AudioPortType(role, type) ==
    CASE type = AudioPortType_DEVICE ->
           (CASE role = AudioPortRole_SOURCE -> Ok(Direction_INPUT)
              [] role = AudioPortRole_SINK -> Ok(Direction_OUTPUT)
              [] OTHER -> Unexpected)
      [] type = AudioPortType_MIX ->
           (CASE role = AudioPortRole_SOURCE -> Ok(Direction_OUTPUT)
              [] role = AudioPortRole_SINK -> Ok(Direction_INPUT)
              [] OTHER -> Unexpected)
      [] OTHER -> Unexpected

\* The derivation with a MIX port classified the way a DEVICE port is.
direction_audio_port_role_t_audio_port_type_t_mixLikeDevice(role, type) ==
    CASE type \in {AUDIO_PORT_TYPE_DEVICE, AUDIO_PORT_TYPE_MIX} ->
           (CASE role = AUDIO_PORT_ROLE_SOURCE -> Ok(Direction_INPUT)
              [] role = AUDIO_PORT_ROLE_SINK -> Ok(Direction_OUTPUT)
              [] OTHER -> Unexpected)
      [] OTHER -> Unexpected

\* direction(audio_port_role_t, audio_port_type_t).
direction_audio_port_role_t_audio_port_type_t(role, type) ==
    CASE type = AUDIO_PORT_TYPE_DEVICE ->
           (CASE role = AUDIO_PORT_ROLE_SOURCE -> Ok(Direction_INPUT)
              [] role = AUDIO_PORT_ROLE_SINK -> Ok(Direction_OUTPUT)
              [] OTHER -> Unexpected)
      [] type = AUDIO_PORT_TYPE_MIX ->
           (CASE role = AUDIO_PORT_ROLE_SOURCE -> Ok(Direction_OUTPUT)
              [] role = AUDIO_PORT_ROLE_SINK -> Ok(Direction_INPUT)
              [] OTHER -> Unexpected)
      [] OTHER -> Unexpected

\* ---------------------------------------------------------------------------
\* Channel masks (system/audio.h): the top two bits are the representation, the
\* low 30 bits the channel bits.

AUDIO_CHANNEL_COUNT_MAX == 30

AUDIO_CHANNEL_REPRESENTATION_POSITION == 0

AUDIO_CHANNEL_REPRESENTATION_INDEX == 2

\* 0x77FFFC and 0x300FFFFF.
AUDIO_CHANNEL_IN_ALL == 7864316

AUDIO_CHANNEL_OUT_ALL == 806354943

audio_channel_mask_get_representation(channel) == ShiftRight(channel, AUDIO_CHANNEL_COUNT_MAX)

audio_channel_mask_get_bits(channel) == BitAnd(channel, 2 ^ AUDIO_CHANNEL_COUNT_MAX - 1)

audio_channel_count_from_in_mask(channel) ==
    LET bits == audio_channel_mask_get_bits(channel)
        rep == audio_channel_mask_get_representation(channel)
    IN  CASE rep = AUDIO_CHANNEL_REPRESENTATION_POSITION ->
               PopCount(IF SetBits(bits) \subseteq SetBits(AUDIO_CHANNEL_IN_ALL) THEN bits ELSE 0)
          [] rep = AUDIO_CHANNEL_REPRESENTATION_INDEX -> PopCount(bits)
          [] OTHER -> 0

audio_channel_count_from_out_mask(channel) ==
    LET bits == audio_channel_mask_get_bits(channel)
        rep == audio_channel_mask_get_representation(channel)
    IN  CASE rep = AUDIO_CHANNEL_REPRESENTATION_POSITION -> PopCount(BitAnd(bits, AUDIO_CHANNEL_OUT_ALL))
          [] rep = AUDIO_CHANNEL_REPRESENTATION_INDEX -> PopCount(bits)
          [] OTHER -> 0

aidl2legacy_int32_t_audio_channel_mask_t(aidl) == Ok(convertReinterpret(aidl))

legacy2aidl_audio_channel_mask_t_int32_t(legacy) == Ok(convertReinterpret(legacy))

\* ---------------------------------------------------------------------------
\* Gain config.
\*
\* media::AudioGainConfig is [index, mode, channelMask, values, rampDurationMs]
\* with values a sequence; audio_gain_config is [index, mode, channel_mask,
\* values, ramp_duration_ms] with values an array of GainValuesCapacity ints,
\* held as a function on 0 .. GainValuesCapacity - 1.
\*
\* A converter's local result object starts out uninitialized: `junk` is what
\* the object holds before the converter's first assignment.
\*
\* Each converter comes with the run that also reports `touched`, the indexes of
\* legacy.values the call wrote (wire to legacy) or read (legacy to wire).

\* std::size(legacy.values) = sizeof(audio_channel_mask_t) * 8.
GainValuesCapacity == 32

\* A failed run.
Failed(indexes) == [r |-> Unexpected, touched |-> indexes]

\* values[i] of a C array: outside the array the read is of foreign memory.
ArrayRead(values, i) == IF i \in DOMAIN values THEN values[i] ELSE 0

\* values[i] = x of a C array: a store outside the array leaves the array as is.
ArrayWrite(values, i, x) == IF i \in DOMAIN values THEN [values EXCEPT ![i] = x] ELSE values

\* The for loop of aidl2legacy_AudioGainConfig_audio_gain_config, from index i.
RECURSIVE aidl2legacy_gainValuesLoop(_, _, _, _)
aidl2legacy_gainValuesLoop(aidlValues, legacyValues, i, numValues) ==
    IF i >= numValues THEN legacyValues
    ELSE aidl2legacy_gainValuesLoop(aidlValues, ArrayWrite(legacyValues, i, convertIntegral_int32_to_int(aidlValues[i + 1]).v), i + 1, numValues)

\* The converter without its check of the number of values against the count
\* and the capacity: it copies as many values as the wire record holds.
aidl2legacy_AudioGainConfig_run_unchecked(aidl, role, type, junk) ==
    LET mode == aidl2legacy_int32_t_audio_gain_mode_t(aidl.mode)
        dir == direction_AudioPortRole_AudioPortType(role, type)
        n == Len(aidl.values)
    IN  IF ~mode.ok \/ ~dir.ok THEN Failed({})
        ELSE IF ~convertIntegral_int32_to_uint32(aidl.rampDurationMs).ok THEN Failed(0 .. n - 1)
        ELSE [r |-> Ok([index |-> aidl.index, mode |-> mode.v, channel_mask |-> aidl.channelMask,
                        values |-> aidl2legacy_gainValuesLoop(aidl.values, junk.values, 0, n),
                        ramp_duration_ms |-> aidl.rampDurationMs]),
              touched |-> 0 .. n - 1]

aidl2legacy_AudioGainConfig_run(aidl, role, type, junk) ==
    LET index == convertIntegral_int32_to_int(aidl.index)
        mode == aidl2legacy_int32_t_audio_gain_mode_t(aidl.mode)
        channel_mask == aidl2legacy_int32_t_audio_channel_mask_t(aidl.channelMask)
        dir == direction_AudioPortRole_AudioPortType(role, type)
        isInput == dir.v = Direction_INPUT
        isJoint == bitmaskIsSet(aidl.mode, AudioGainMode_JOINT)
        numValues == IF isJoint THEN 1
                     ELSE IF isInput THEN audio_channel_count_from_in_mask(channel_mask.v)
                     ELSE audio_channel_count_from_out_mask(channel_mask.v)
        ramp == convertIntegral_int32_to_uint32(aidl.rampDurationMs)
    IN  IF ~index.ok THEN Failed({})
        ELSE IF ~mode.ok THEN Failed({})
        ELSE IF ~channel_mask.ok THEN Failed({})
        ELSE IF ~dir.ok THEN Failed({})
        ELSE IF Len(aidl.values) # numValues \/ Len(aidl.values) > GainValuesCapacity THEN Failed({})
        ELSE IF ~ramp.ok THEN Failed(0 .. numValues - 1)
        ELSE [r |-> Ok([index |-> index.v, mode |-> mode.v, channel_mask |-> channel_mask.v,
                        values |-> aidl2legacy_gainValuesLoop(aidl.values, junk.values, 0, numValues),
                        ramp_duration_ms |-> ramp.v]),
              touched |-> 0 .. numValues - 1]

aidl2legacy_AudioGainConfig_audio_gain_config(aidl, role, type, junk) ==
    aidl2legacy_AudioGainConfig_run(aidl, role, type, junk).r

\* The converter with the direction taken as INPUT for every (role, type).
legacy2aidl_audio_gain_config_run_alwaysInput(legacy, role, type) ==
    LET mode == legacy2aidl_audio_gain_mode_t_int32_t(legacy.mode)
        dir == direction_audio_port_role_t_audio_port_type_t(role, type)
        numValues == IF BitAnd(legacy.mode, AUDIO_GAIN_MODE_JOINT) # 0 THEN 1
                     ELSE audio_channel_count_from_in_mask(legacy.channel_mask)
        ramp == convertIntegral_uint32_to_int32(legacy.ramp_duration_ms)
    IN  IF ~mode.ok \/ ~dir.ok THEN Failed({})
        ELSE IF ~ramp.ok THEN Failed(0 .. numValues - 1)
        ELSE [r |-> Ok([index |-> legacy.index, mode |-> mode.v, channelMask |-> legacy.channel_mask,
                        values |-> [i \in 1 .. numValues |-> ArrayRead(legacy.values, i - 1)],
                        rampDurationMs |-> ramp.v]),
              touched |-> 0 .. numValues - 1]

legacy2aidl_audio_gain_config_run(legacy, role, type) ==
    LET index == convertIntegral_int32_to_int(legacy.index)
        mode == legacy2aidl_audio_gain_mode_t_int32_t(legacy.mode)
        channelMask == legacy2aidl_audio_channel_mask_t_int32_t(legacy.channel_mask)
        dir == direction_audio_port_role_t_audio_port_type_t(role, type)
        isInput == dir.v = Direction_INPUT
        isJoint == BitAnd(legacy.mode, AUDIO_GAIN_MODE_JOINT) # 0
        numValues == IF isJoint THEN 1
                     ELSE IF isInput THEN audio_channel_count_from_in_mask(legacy.channel_mask)
                     ELSE audio_channel_count_from_out_mask(legacy.channel_mask)
        ramp == convertIntegral_uint32_to_int32(legacy.ramp_duration_ms)
    IN  IF ~index.ok THEN Failed({})
        ELSE IF ~mode.ok THEN Failed({})
        ELSE IF ~channelMask.ok THEN Failed({})
        ELSE IF ~dir.ok THEN Failed({})
        ELSE IF ~ramp.ok THEN Failed(0 .. numValues - 1)
        ELSE [r |-> Ok([index |-> index.v, mode |-> mode.v, channelMask |-> channelMask.v,
                        values |-> [i \in 1 .. numValues |-> convertIntegral_int32_to_int(ArrayRead(legacy.values, i - 1)).v],
                        rampDurationMs |-> ramp.v]),
              touched |-> 0 .. numValues - 1]

legacy2aidl_audio_gain_config_AudioGainConfig(legacy, role, type) ==
    legacy2aidl_audio_gain_config_run(legacy, role, type).r

\* ---------------------------------------------------------------------------
\* Strings in fixed-size buffers.
\*
\* A wire string is a sequence of bytes; a legacy buffer of maxSize chars is a
\* function on 0 .. maxSize - 1. `touched` of a run holds the buffer indexes the
\* call wrote (aidl2legacy_string) or read (legacy2aidl_string).

\* A buffer that holds `bytes` from index 0 on and `fill` after them.
BufferOf(bytes, size, fill) == [i \in 0 .. (size - 1) |-> IF i < Len(bytes) THEN bytes[i + 1] ELSE fill]

\* aidl.copy(dest, n): dest[0 .. n-1] = aidl[0 .. n-1]. A store outside the
\* buffer leaves the buffer as is.
CopyBytes(aidl, dest, i, n) == [k \in DOMAIN dest |-> IF i <= k /\ k < n THEN aidl[k + 1] ELSE dest[k]]

\* A copy that cuts the string to what fits before the terminator.
aidl2legacy_string_run_truncating(aidl, dest, maxSize) ==
    LET n == IF Len(aidl) > maxSize - 1 THEN maxSize - 1 ELSE Len(aidl)
    IN  IF maxSize = 0 THEN Failed({})
        ELSE [r |-> Ok(ArrayWrite(CopyBytes(aidl, dest, 0, n), n, 0)), touched |-> 0 .. n]

\* A copy that does not write the terminator.
aidl2legacy_string_run_unterminated(aidl, dest, maxSize) ==
    LET tooLong == IF maxSize = 0 THEN FALSE ELSE Len(aidl) > maxSize - 1
    IN  IF tooLong THEN Failed({})
        ELSE [r |-> Ok(CopyBytes(aidl, dest, 0, Len(aidl))), touched |-> 0 .. (Len(aidl) - 1)]

\* maxSize - 1 is computed in size_t: for maxSize = 0 it is SIZE_MAX, which no
\* size exceeds.
aidl2legacy_string_run(aidl, dest, maxSize) ==
    LET tooLong == IF maxSize = 0 THEN FALSE ELSE Len(aidl) > maxSize - 1
    IN  IF tooLong THEN Failed({})
        ELSE [r |-> Ok(ArrayWrite(CopyBytes(aidl, dest, 0, Len(aidl)), Len(aidl), 0)), touched |-> 0 .. Len(aidl)]

aidl2legacy_string(aidl, dest, maxSize) == aidl2legacy_string_run(aidl, dest, maxSize).r

\* strnlen(legacy, maxSize): the index of the first NUL among the first maxSize
\* chars, or maxSize when there is none.
strnlen(legacy, maxSize) ==
    LET nuls == {i \in 0 .. (maxSize - 1) : ArrayRead(legacy, i) = 0}
    IN  IF nuls = {} THEN maxSize ELSE CHOOSE i \in nuls : \A k \in nuls : i <= k

\* A legacy string argument is [null, bytes]: a null pointer, or a pointer to
\* the buffer `bytes`.
legacy2aidl_string_run(legacy, maxSize) ==
    IF legacy.null THEN Failed({})
    ELSE LET n == strnlen(legacy.bytes, maxSize)
         IN  IF n = maxSize THEN Failed(0 .. (maxSize - 1))
             ELSE [r |-> Ok([i \in 1 .. n |-> legacy.bytes[i - 1]]), touched |-> 0 .. n]

legacy2aidl_string(legacy, maxSize) == legacy2aidl_string_run(legacy, maxSize).r

\* ---------------------------------------------------------------------------
\* Aggregates. An aggregate converter runs its field conversions in order and
\* returns the first failure (VALUE_OR_RETURN, RETURN_IF_ERROR).

\* LOG_ALWAYS_FATAL: the process aborts; no result is returned.
SIGABRT == 6

Fatal == [ok |-> FALSE, v |-> SIGABRT]

\* The first failure among the results of the conversions run, in code order.
RECURSIVE FirstFailureFrom(_, _)
FirstFailureFrom(results, i) ==
    IF i > Len(results) THEN Ok(<<>>)
    ELSE IF ~results[i].ok THEN results[i]
    ELSE FirstFailureFrom(results, i + 1)

FirstFailure(results) == FirstFailureFrom(results, 1)

\* The VALUE_OR_RETURN statements of a converter in code order, then its
\* return statement: the first error among `results`, or the record whose
\* fields `names` hold the values of `results`.
ValueOrReturn(names, results) ==
    LET failure == FirstFailure(results)
    IN  IF ~failure.ok THEN failure
        ELSE Ok([n \in {names[i] : i \in DOMAIN names} |-> results[CHOOSE i \in DOMAIN names : names[i] = n].v])

\* unionGetField / UNION_GET: a wire union is [tag, value].
unionGetField(u, tag) == IF u.tag # tag THEN Unexpected ELSE Ok(u.value)

\* UNION_SET.
unionSet(tag, value) == [tag |-> tag, value |-> value]

\* Opaque handles.
aidl2legacy_int32_t_audio_module_handle_t(aidl) == Ok(convertReinterpret(aidl))

legacy2aidl_audio_module_handle_t_int32_t(legacy) == Ok(convertReinterpret(legacy))

aidl2legacy_int32_t_audio_io_handle_t(aidl) == Ok(convertReinterpret(aidl))

legacy2aidl_audio_io_handle_t_int32_t(legacy) == Ok(convertReinterpret(legacy))

aidl2legacy_int32_t_audio_port_handle_t(aidl) == Ok(convertReinterpret(aidl))

legacy2aidl_audio_port_handle_t_int32_t(legacy) == Ok(convertReinterpret(legacy))

aidl2legacy_int32_t_audio_devices_t(aidl) == Ok(convertReinterpret(aidl))

legacy2aidl_audio_devices_t_int32_t(legacy) == Ok(convertReinterpret(legacy))

aidl2legacy_int32_t_audio_session_t(aidl) == Ok(convertReinterpret(aidl))

legacy2aidl_audio_session_t_int32_t(legacy) == Ok(convertReinterpret(legacy))

\* The format converted with a check that it fits the non-negative range.
aidl2legacy_AudioFormat_audio_format_t_checked(aidl) == IF aidl < 0 THEN Unexpected ELSE Ok(aidl)

aidl2legacy_AudioFormat_audio_format_t(aidl) == Ok(aidl)

legacy2aidl_audio_format_t_AudioFormat(legacy) == Ok(legacy)

\* ---------------------------------------------------------------------------
\* Legacy unions. The members of a C union share their storage: a union is
\* held as the record of its members' views of that storage, and a store to
\* one member is seen through the others.

\* Byte k (0 for the lowest) of a word, and the word of four bytes.
ByteOfWord(w, k) == ShiftRight(w, 8 * k) % 256

WordOfBytes(b0, b1, b2, b3) == b0 + 256 * b1 + 65536 * b2 + 16777216 * (IF b3 >= 128 THEN b3 - 256 ELSE b3)

\* audio_io_flags is one word, seen as input or as output.
LegacyIoFlags(w) == [input |-> w, output |-> w]

\* The legacy use-case union is one word, seen through either member.
LegacyUseCase(w) == [stream |-> w, source |-> w]

\* The legacy ext union is one storage seen through its three members: the
\* module handle and the session are its first word, the device type and the
\* io handle its second, and the use case the first four address bytes.
LegacyPortExt(hw, ty, address) ==
    [device |-> [hw_module |-> hw, type |-> ty, address |-> address],
     mix |-> [hw_module |-> hw, handle |-> ty, usecase |-> LegacyUseCase(WordOfBytes(address[0], address[1], address[2], address[3]))],
     session |-> [session |-> hw]]

\* The address bytes after a store of the use-case word over the first four.
AddressOver(address, w) == [i \in DOMAIN address |-> IF i < 4 THEN ByteOfWord(w, i) ELSE address[i]]

\* ---------------------------------------------------------------------------
\* I/O flags. media::AudioIoFlags is a union of input and output; of the legacy
\* audio_io_flags union a converter reads or writes the one member Direction
\* selects.

\* The converter reading the payload of the union whatever its tag.
aidl2legacy_AudioIoFlags_audio_io_flags_anyTag(aidl, role, type, junk) ==
    LET dir == direction_AudioPortRole_AudioPortType(role, type)
    IN  IF ~dir.ok THEN dir
        ELSE IF dir.v = Direction_INPUT
        THEN LET input == aidl2legacy_audio_input_flags_mask(aidl.value)
             IN  IF ~input.ok THEN input ELSE Ok(LegacyIoFlags(input.v))
        ELSE LET output == aidl2legacy_audio_output_flags_mask(aidl.value)
             IN  IF ~output.ok THEN output ELSE Ok(LegacyIoFlags(output.v))

aidl2legacy_AudioIoFlags_audio_io_flags(aidl, role, type, junk) ==
    LET dir == direction_AudioPortRole_AudioPortType(role, type)
    IN  IF ~dir.ok THEN dir
        ELSE IF dir.v = Direction_INPUT
        THEN LET field == unionGetField(aidl, "input")
                 input == aidl2legacy_audio_input_flags_mask(field.v)
             IN  IF ~field.ok THEN field
                 ELSE IF ~input.ok THEN input
                 ELSE Ok(LegacyIoFlags(input.v))
        ELSE LET field == unionGetField(aidl, "output")
                 output == aidl2legacy_audio_output_flags_mask(field.v)
             IN  IF ~field.ok THEN field
                 ELSE IF ~output.ok THEN output
                 ELSE Ok(LegacyIoFlags(output.v))

legacy2aidl_audio_io_flags_AudioIoFlags(legacy, role, type) ==
    LET dir == direction_audio_port_role_t_audio_port_type_t(role, type)
    IN  IF ~dir.ok THEN dir
        ELSE IF dir.v = Direction_INPUT
        THEN LET input == legacy2aidl_audio_input_flags_mask(legacy.input)
             IN  IF ~input.ok THEN input ELSE Ok(unionSet("input", input.v))
        ELSE LET output == legacy2aidl_audio_output_flags_mask(legacy.output)
             IN  IF ~output.ok THEN output ELSE Ok(unionSet("output", output.v))

\* ---------------------------------------------------------------------------
\* Port-config extensions.

AUDIO_DEVICE_MAX_ADDRESS_LEN == 32

aidl2legacy_AudioPortConfigDeviceExt(aidl, junk) ==
    LET hw_module == aidl2legacy_int32_t_audio_module_handle_t(aidl.hwModule)
        type == aidl2legacy_int32_t_audio_devices_t(aidl.type)
        address == aidl2legacy_string(aidl.address, junk.address, AUDIO_DEVICE_MAX_ADDRESS_LEN)
    IN  ValueOrReturn(<<"hw_module", "type", "address">>, <<hw_module, type, address>>)

legacy2aidl_AudioPortConfigDeviceExt(legacy) ==
    LET hwModule == legacy2aidl_audio_module_handle_t_int32_t(legacy.hw_module)
        type == legacy2aidl_audio_devices_t_int32_t(legacy.type)
        address == legacy2aidl_string([null |-> FALSE, bytes |-> legacy.address], AUDIO_DEVICE_MAX_ADDRESS_LEN)
    IN  ValueOrReturn(<<"hwModule", "type", "address">>, <<hwModule, type, address>>)

\* The use case with each role mapped to the member of its own name.
aidl2legacy_AudioPortConfigMixExtUseCase_sameName(aidl, role, junk) ==
    CASE role = AudioPortRole_NONE ->
           (LET nothing == unionGetField(aidl, "nothing")
            IN  IF ~nothing.ok THEN nothing ELSE Ok(junk))
      [] role = AudioPortRole_SOURCE ->
           (LET field == unionGetField(aidl, "source")
                source == aidl2legacy_AudioSourceType_audio_source_t(field.v)
            IN  IF ~field.ok THEN field
                ELSE IF ~source.ok THEN source
                ELSE Ok(LegacyUseCase(source.v)))
      [] role = AudioPortRole_SINK ->
           (LET field == unionGetField(aidl, "stream")
                stream == aidl2legacy_AudioStreamType_audio_stream_type_t(field.v)
            IN  IF ~field.ok THEN field
                ELSE IF ~stream.ok THEN stream
                ELSE Ok(LegacyUseCase(stream.v)))
      [] OTHER -> Fatal

aidl2legacy_AudioPortConfigMixExtUseCase(aidl, role, junk) ==
    CASE role = AudioPortRole_NONE ->
           (LET nothing == unionGetField(aidl, "nothing")
            IN  IF ~nothing.ok THEN nothing ELSE Ok(junk))
      [] role = AudioPortRole_SOURCE ->
           (LET field == unionGetField(aidl, "stream")
                stream == aidl2legacy_AudioStreamType_audio_stream_type_t(field.v)
            IN  IF ~field.ok THEN field
                ELSE IF ~stream.ok THEN stream
                ELSE Ok(LegacyUseCase(stream.v)))
      [] role = AudioPortRole_SINK ->
           (LET field == unionGetField(aidl, "source")
                source == aidl2legacy_AudioSourceType_audio_source_t(field.v)
            IN  IF ~field.ok THEN field
                ELSE IF ~source.ok THEN source
                ELSE Ok(LegacyUseCase(source.v)))
      [] OTHER -> Fatal

\* The use case read through the member of each role's own name.
legacy2aidl_AudioPortConfigMixExtUseCase_sameName(legacy, role) ==
    CASE role = AUDIO_PORT_ROLE_NONE -> Ok(unionSet("nothing", FALSE))
      [] role = AUDIO_PORT_ROLE_SOURCE ->
           (LET source == legacy2aidl_audio_source_t_AudioSourceType(legacy.source)
            IN  IF ~source.ok THEN source ELSE Ok(unionSet("source", source.v)))
      [] role = AUDIO_PORT_ROLE_SINK ->
           (LET stream == legacy2aidl_audio_stream_type_t_AudioStreamType(legacy.stream)
            IN  IF ~stream.ok THEN stream ELSE Ok(unionSet("stream", stream.v)))
      [] OTHER -> Fatal

legacy2aidl_AudioPortConfigMixExtUseCase(legacy, role) ==
    CASE role = AUDIO_PORT_ROLE_NONE -> Ok(unionSet("nothing", FALSE))
      [] role = AUDIO_PORT_ROLE_SOURCE ->
           (LET stream == legacy2aidl_audio_stream_type_t_AudioStreamType(legacy.stream)
            IN  IF ~stream.ok THEN stream ELSE Ok(unionSet("stream", stream.v)))
      [] role = AUDIO_PORT_ROLE_SINK ->
           (LET source == legacy2aidl_audio_source_t_AudioSourceType(legacy.source)
            IN  IF ~source.ok THEN source ELSE Ok(unionSet("source", source.v)))
      [] OTHER -> Fatal

aidl2legacy_AudioPortConfigMixExt(aidl, role, junk) ==
    LET hw_module == aidl2legacy_int32_t_audio_module_handle_t(aidl.hwModule)
        handle == aidl2legacy_int32_t_audio_io_handle_t(aidl.handle)
        usecase == aidl2legacy_AudioPortConfigMixExtUseCase(aidl.usecase, role, junk.usecase)
    IN  ValueOrReturn(<<"hw_module", "handle", "usecase">>, <<hw_module, handle, usecase>>)

legacy2aidl_AudioPortConfigMixExt(legacy, role) ==
    LET hwModule == legacy2aidl_audio_module_handle_t_int32_t(legacy.hw_module)
        handle == legacy2aidl_audio_io_handle_t_int32_t(legacy.handle)
        usecase == legacy2aidl_AudioPortConfigMixExtUseCase(legacy.usecase, role)
    IN  ValueOrReturn(<<"hwModule", "handle", "usecase">>, <<hwModule, handle, usecase>>)

aidl2legacy_AudioPortConfigSessionExt(aidl) ==
    LET session == aidl2legacy_int32_t_audio_session_t(aidl.session)
    IN  IF ~session.ok THEN session ELSE Ok([session |-> session.v])

legacy2aidl_AudioPortConfigSessionExt(legacy) ==
    LET session == legacy2aidl_audio_session_t_int32_t(legacy.session)
    IN  IF ~session.ok THEN session ELSE Ok([session |-> session.v])

aidl2legacy_AudioPortConfigExt(aidl, type, role, junk) ==
    CASE type = AudioPortType_NONE ->
           (LET nothing == unionGetField(aidl, "nothing")
            IN  IF ~nothing.ok THEN nothing ELSE Ok(junk))
      [] type = AudioPortType_DEVICE ->
           (LET field == unionGetField(aidl, "device")
                device == aidl2legacy_AudioPortConfigDeviceExt(field.v, junk.device)
            IN  IF ~field.ok THEN field
                ELSE IF ~device.ok THEN device
                ELSE Ok(LegacyPortExt(device.v.hw_module, device.v.type, device.v.address)))
      [] type = AudioPortType_MIX ->
           (LET field == unionGetField(aidl, "mix")
                mix == aidl2legacy_AudioPortConfigMixExt(field.v, role, junk.mix)
            IN  IF ~field.ok THEN field
                ELSE IF ~mix.ok THEN mix
                ELSE Ok(LegacyPortExt(mix.v.hw_module, mix.v.handle, AddressOver(junk.device.address, mix.v.usecase.stream))))
      [] type = AudioPortType_SESSION ->
           (LET field == unionGetField(aidl, "session")
                session == aidl2legacy_AudioPortConfigSessionExt(field.v)
            IN  IF ~field.ok THEN field
                ELSE IF ~session.ok THEN session
                ELSE Ok(LegacyPortExt(session.v.session, junk.device.type, junk.device.address)))
      [] OTHER -> Fatal

legacy2aidl_AudioPortConfigExt(legacy, type, role) ==
    CASE type = AUDIO_PORT_TYPE_NONE -> Ok(unionSet("nothing", FALSE))
      [] type = AUDIO_PORT_TYPE_DEVICE ->
           (LET device == legacy2aidl_AudioPortConfigDeviceExt(legacy.device)
            IN  IF ~device.ok THEN device ELSE Ok(unionSet("device", device.v)))
      [] type = AUDIO_PORT_TYPE_MIX ->
           (LET mix == legacy2aidl_AudioPortConfigMixExt(legacy.mix, role)
            IN  IF ~mix.ok THEN mix ELSE Ok(unionSet("mix", mix.v)))
      [] type = AUDIO_PORT_TYPE_SESSION ->
           (LET session == legacy2aidl_AudioPortConfigSessionExt(legacy.session)
            IN  IF ~session.ok THEN session ELSE Ok(unionSet("session", session.v)))
      [] OTHER -> Fatal

\* ---------------------------------------------------------------------------
\* Port config.
\*
\* aidl2legacy fills a local audio_port_config that is not initialized: `junk`
\* is what that storage held before, and a legacy field the call does not write
\* keeps it. legacy2aidl fills a default-constructed media::AudioPortConfig.

\* A default-constructed media::AudioGainConfig.
DefaultAudioGainConfig == [index |-> 0, mode |-> 0, channelMask |-> 0, values |-> <<>>, rampDurationMs |-> 0]

\* A default-constructed media::AudioPortConfig: a union holds its first member.
DefaultAudioPortConfig == [id |-> 0, role |-> 0, type |-> 0, configMask |-> 0, sampleRate |-> 0, channelMask |-> 0, format |-> 0, gain |-> DefaultAudioGainConfig, flags |-> unionSet("input", 0), ext |-> unionSet("nothing", FALSE)]

\* The port config with the sample rate converted whether or not its bit is set.
aidl2legacy_AudioPortConfig_audio_port_config_ungated(aidl, junk) ==
    LET id == aidl2legacy_int32_t_audio_port_handle_t(aidl.id)
        role == aidl2legacy_AudioPortRole_audio_port_role_t(aidl.role)
        type == aidl2legacy_AudioPortType_audio_port_type_t(aidl.type)
        config_mask == aidl2legacy_int32_t_config_mask(aidl.configMask)
        sample_rate == convertIntegral_int32_to_uint32(aidl.sampleRate)
        channel_mask == IF bitmaskIsSet(aidl.configMask, AudioPortConfigType_CHANNEL_MASK) THEN aidl2legacy_int32_t_audio_channel_mask_t(aidl.channelMask) ELSE Ok(junk.channel_mask)
        format == IF bitmaskIsSet(aidl.configMask, AudioPortConfigType_FORMAT) THEN aidl2legacy_AudioFormat_audio_format_t(aidl.format) ELSE Ok(junk.format)
        gain == IF bitmaskIsSet(aidl.configMask, AudioPortConfigType_GAIN) THEN aidl2legacy_AudioGainConfig_audio_gain_config(aidl.gain, aidl.role, aidl.type, junk.gain) ELSE Ok(junk.gain)
        flags == IF bitmaskIsSet(aidl.configMask, AudioPortConfigType_FLAGS) THEN aidl2legacy_AudioIoFlags_audio_io_flags(aidl.flags, aidl.role, aidl.type, junk.flags) ELSE Ok(junk.flags)
        ext == aidl2legacy_AudioPortConfigExt(aidl.ext, aidl.type, aidl.role, junk.ext)
    IN  ValueOrReturn(<<"id", "role", "type", "config_mask", "sample_rate", "channel_mask", "format", "gain", "flags", "ext">>, <<id, role, type, config_mask, sample_rate, channel_mask, format, gain, flags, ext>>)

\* The port config with the flags converted as those of a device port, whatever
\* the type of the port.
aidl2legacy_AudioPortConfig_audio_port_config_flagsAsDevice(aidl, junk) ==
    LET id == aidl2legacy_int32_t_audio_port_handle_t(aidl.id)
        role == aidl2legacy_AudioPortRole_audio_port_role_t(aidl.role)
        type == aidl2legacy_AudioPortType_audio_port_type_t(aidl.type)
        config_mask == aidl2legacy_int32_t_config_mask(aidl.configMask)
        sample_rate == IF bitmaskIsSet(aidl.configMask, AudioPortConfigType_SAMPLE_RATE) THEN convertIntegral_int32_to_uint32(aidl.sampleRate) ELSE Ok(junk.sample_rate)
        channel_mask == IF bitmaskIsSet(aidl.configMask, AudioPortConfigType_CHANNEL_MASK) THEN aidl2legacy_int32_t_audio_channel_mask_t(aidl.channelMask) ELSE Ok(junk.channel_mask)
        format == IF bitmaskIsSet(aidl.configMask, AudioPortConfigType_FORMAT) THEN aidl2legacy_AudioFormat_audio_format_t(aidl.format) ELSE Ok(junk.format)
        gain == IF bitmaskIsSet(aidl.configMask, AudioPortConfigType_GAIN) THEN aidl2legacy_AudioGainConfig_audio_gain_config(aidl.gain, aidl.role, aidl.type, junk.gain) ELSE Ok(junk.gain)
        flags == IF bitmaskIsSet(aidl.configMask, AudioPortConfigType_FLAGS) THEN aidl2legacy_AudioIoFlags_audio_io_flags(aidl.flags, aidl.role, AudioPortType_DEVICE, junk.flags) ELSE Ok(junk.flags)
        ext == aidl2legacy_AudioPortConfigExt(aidl.ext, aidl.type, aidl.role, junk.ext)
    IN  ValueOrReturn(<<"id", "role", "type", "config_mask", "sample_rate", "channel_mask", "format", "gain", "flags", "ext">>, <<id, role, type, config_mask, sample_rate, channel_mask, format, gain, flags, ext>>)

\* The port config with the flags converted whether or not their bit is set.
aidl2legacy_AudioPortConfig_audio_port_config_flagsUngated(aidl, junk) ==
    LET id == aidl2legacy_int32_t_audio_port_handle_t(aidl.id)
        role == aidl2legacy_AudioPortRole_audio_port_role_t(aidl.role)
        type == aidl2legacy_AudioPortType_audio_port_type_t(aidl.type)
        config_mask == aidl2legacy_int32_t_config_mask(aidl.configMask)
        sample_rate == IF bitmaskIsSet(aidl.configMask, AudioPortConfigType_SAMPLE_RATE) THEN convertIntegral_int32_to_uint32(aidl.sampleRate) ELSE Ok(junk.sample_rate)
        channel_mask == IF bitmaskIsSet(aidl.configMask, AudioPortConfigType_CHANNEL_MASK) THEN aidl2legacy_int32_t_audio_channel_mask_t(aidl.channelMask) ELSE Ok(junk.channel_mask)
        format == IF bitmaskIsSet(aidl.configMask, AudioPortConfigType_FORMAT) THEN aidl2legacy_AudioFormat_audio_format_t(aidl.format) ELSE Ok(junk.format)
        gain == IF bitmaskIsSet(aidl.configMask, AudioPortConfigType_GAIN) THEN aidl2legacy_AudioGainConfig_audio_gain_config(aidl.gain, aidl.role, aidl.type, junk.gain) ELSE Ok(junk.gain)
        flags == aidl2legacy_AudioIoFlags_audio_io_flags(aidl.flags, aidl.role, aidl.type, junk.flags)
        ext == aidl2legacy_AudioPortConfigExt(aidl.ext, aidl.type, aidl.role, junk.ext)
    IN  ValueOrReturn(<<"id", "role", "type", "config_mask", "sample_rate", "channel_mask", "format", "gain", "flags", "ext">>, <<id, role, type, config_mask, sample_rate, channel_mask, format, gain, flags, ext>>)

\* The port config with the role taken as it comes.
aidl2legacy_AudioPortConfig_audio_port_config_uncheckedRole(aidl, junk) ==
    LET id == aidl2legacy_int32_t_audio_port_handle_t(aidl.id)
        role == Ok(aidl.role)
        type == aidl2legacy_AudioPortType_audio_port_type_t(aidl.type)
        config_mask == aidl2legacy_int32_t_config_mask(aidl.configMask)
        sample_rate == IF bitmaskIsSet(aidl.configMask, AudioPortConfigType_SAMPLE_RATE) THEN convertIntegral_int32_to_uint32(aidl.sampleRate) ELSE Ok(junk.sample_rate)
        channel_mask == IF bitmaskIsSet(aidl.configMask, AudioPortConfigType_CHANNEL_MASK) THEN aidl2legacy_int32_t_audio_channel_mask_t(aidl.channelMask) ELSE Ok(junk.channel_mask)
        format == IF bitmaskIsSet(aidl.configMask, AudioPortConfigType_FORMAT) THEN aidl2legacy_AudioFormat_audio_format_t(aidl.format) ELSE Ok(junk.format)
        gain == IF bitmaskIsSet(aidl.configMask, AudioPortConfigType_GAIN) THEN aidl2legacy_AudioGainConfig_audio_gain_config(aidl.gain, aidl.role, aidl.type, junk.gain) ELSE Ok(junk.gain)
        flags == IF bitmaskIsSet(aidl.configMask, AudioPortConfigType_FLAGS) THEN aidl2legacy_AudioIoFlags_audio_io_flags(aidl.flags, aidl.role, aidl.type, junk.flags) ELSE Ok(junk.flags)
        ext == aidl2legacy_AudioPortConfigExt(aidl.ext, aidl.type, aidl.role, junk.ext)
    IN  ValueOrReturn(<<"id", "role", "type", "config_mask", "sample_rate", "channel_mask", "format", "gain", "flags", "ext">>, <<id, role, type, config_mask, sample_rate, channel_mask, format, gain, flags, ext>>)

aidl2legacy_AudioPortConfig_audio_port_config(aidl, junk) ==
    LET id == aidl2legacy_int32_t_audio_port_handle_t(aidl.id)
        role == aidl2legacy_AudioPortRole_audio_port_role_t(aidl.role)
        type == aidl2legacy_AudioPortType_audio_port_type_t(aidl.type)
        config_mask == aidl2legacy_int32_t_config_mask(aidl.configMask)
        sample_rate == IF bitmaskIsSet(aidl.configMask, AudioPortConfigType_SAMPLE_RATE) THEN convertIntegral_int32_to_uint32(aidl.sampleRate) ELSE Ok(junk.sample_rate)
        channel_mask == IF bitmaskIsSet(aidl.configMask, AudioPortConfigType_CHANNEL_MASK) THEN aidl2legacy_int32_t_audio_channel_mask_t(aidl.channelMask) ELSE Ok(junk.channel_mask)
        format == IF bitmaskIsSet(aidl.configMask, AudioPortConfigType_FORMAT) THEN aidl2legacy_AudioFormat_audio_format_t(aidl.format) ELSE Ok(junk.format)
        gain == IF bitmaskIsSet(aidl.configMask, AudioPortConfigType_GAIN) THEN aidl2legacy_AudioGainConfig_audio_gain_config(aidl.gain, aidl.role, aidl.type, junk.gain) ELSE Ok(junk.gain)
        flags == IF bitmaskIsSet(aidl.configMask, AudioPortConfigType_FLAGS) THEN aidl2legacy_AudioIoFlags_audio_io_flags(aidl.flags, aidl.role, aidl.type, junk.flags) ELSE Ok(junk.flags)
        ext == aidl2legacy_AudioPortConfigExt(aidl.ext, aidl.type, aidl.role, junk.ext)
    IN  ValueOrReturn(<<"id", "role", "type", "config_mask", "sample_rate", "channel_mask", "format", "gain", "flags", "ext">>, <<id, role, type, config_mask, sample_rate, channel_mask, format, gain, flags, ext>>)

legacy2aidl_audio_port_config_AudioPortConfig(legacy) ==
    LET id == legacy2aidl_audio_port_handle_t_int32_t(legacy.id)
        role == legacy2aidl_audio_port_role_t_AudioPortRole(legacy.role)
        type == legacy2aidl_audio_port_type_t_AudioPortType(legacy.type)
        configMask == legacy2aidl_config_mask_int32_t(legacy.config_mask)
        sampleRate == IF BitAnd(legacy.config_mask, AUDIO_PORT_CONFIG_SAMPLE_RATE) # 0 THEN convertIntegral_uint32_to_int32(legacy.sample_rate) ELSE Ok(DefaultAudioPortConfig.sampleRate)
        channelMask == IF BitAnd(legacy.config_mask, AUDIO_PORT_CONFIG_CHANNEL_MASK) # 0 THEN legacy2aidl_audio_channel_mask_t_int32_t(legacy.channel_mask) ELSE Ok(DefaultAudioPortConfig.channelMask)
        format == IF BitAnd(legacy.config_mask, AUDIO_PORT_CONFIG_FORMAT) # 0 THEN legacy2aidl_audio_format_t_AudioFormat(legacy.format) ELSE Ok(DefaultAudioPortConfig.format)
        gain == IF BitAnd(legacy.config_mask, AUDIO_PORT_CONFIG_GAIN) # 0 THEN legacy2aidl_audio_gain_config_AudioGainConfig(legacy.gain, legacy.role, legacy.type) ELSE Ok(DefaultAudioPortConfig.gain)
        flags == IF BitAnd(legacy.config_mask, AUDIO_PORT_CONFIG_FLAGS) # 0 THEN legacy2aidl_audio_io_flags_AudioIoFlags(legacy.flags, legacy.role, legacy.type) ELSE Ok(DefaultAudioPortConfig.flags)
        ext == legacy2aidl_AudioPortConfigExt(legacy.ext, legacy.type, legacy.role)
    IN  ValueOrReturn(<<"id", "role", "type", "configMask", "sampleRate", "channelMask", "format", "gain", "flags", "ext">>, <<id, role, type, configMask, sampleRate, channelMask, format, gain, flags, ext>>)

\* ---------------------------------------------------------------------------
\* Patch.

aidl2legacy_int32_t_audio_patch_handle_t(aidl) == Ok(convertReinterpret(aidl))

legacy2aidl_audio_patch_handle_t_int32_t(legacy) == Ok(convertReinterpret(legacy))

AUDIO_PATCH_PORTS_MAX == 16

\* convertIntegral<unsigned int>(size_t) of a vector's size: the size of a
\* vector of port configs that fits in memory is below 2^32.
convertIntegral_size_t_to_uint32(from) == Ok(from)

\* a > b on unsigned int, for a word a and a small constant b.
UnsignedGreater(a, b) == a < 0 \/ a > b

\* The for loop of aidl2legacy_AudioPatch_audio_patch over sinks or sources,
\* from index i: the result holds the legacy array, `touched` the indexes of
\* the array written. patchPortsStore is the rest of one pass once the port
\* at index i has been converted to `port`.
RECURSIVE aidl2legacy_patchPortsLoop(_, _, _, _, _)
RECURSIVE aidl2legacy_patchPortsStore(_, _, _, _, _, _)
aidl2legacy_patchPortsStore(aidlPorts, legacyPorts, i, num, portJunk, port) ==
    IF ~port.ok THEN [r |-> port, touched |-> 0 .. (i - 1)]
    ELSE aidl2legacy_patchPortsLoop(aidlPorts, ArrayWrite(legacyPorts, i, port.v), i + 1, num, portJunk)

aidl2legacy_patchPortsLoop(aidlPorts, legacyPorts, i, num, portJunk) ==
    IF i >= num THEN [r |-> Ok(legacyPorts), touched |-> 0 .. (i - 1)]
    ELSE aidl2legacy_patchPortsStore(aidlPorts, legacyPorts, i, num, portJunk, aidl2legacy_AudioPortConfig_audio_port_config(aidlPorts[i + 1], portJunk))

\* The elements of legacy.sinks or legacy.sources at the given indexes.
PatchElements(member, indexes) == {<<member, i>> : i \in indexes}

\* The end of aidl2legacy_AudioPatch_audio_patch, once both loops have run.
aidl2legacy_AudioPatch_finish(id, num_sinks, sinks, num_sources, sources) ==
    IF ~sources.r.ok THEN [r |-> sources.r, touched |-> PatchElements("sinks", sinks.touched) \cup PatchElements("sources", sources.touched)]
    ELSE [r |-> Ok([id |-> id.v, num_sinks |-> num_sinks, sinks |-> sinks.r.v, num_sources |-> num_sources, sources |-> sources.r.v]),
          touched |-> PatchElements("sinks", sinks.touched) \cup PatchElements("sources", sources.touched)]

\* The patch with the port arrays filled up to their capacity and the rest of
\* the ports dropped.
aidl2legacy_AudioPatch_sources_truncating(aidl, junk, portJunk, id, num_sinks, sinks, num_sources) ==
    IF ~sinks.r.ok THEN [r |-> sinks.r, touched |-> PatchElements("sinks", sinks.touched)]
    ELSE aidl2legacy_AudioPatch_finish(id, num_sinks, sinks, num_sources, aidl2legacy_patchPortsLoop(aidl.sources, junk.sources, 0, num_sources, portJunk))

aidl2legacy_AudioPatch_run_truncating(aidl, junk, portJunk) ==
    LET id == aidl2legacy_int32_t_audio_patch_handle_t(aidl.id)
        num_sinks == IF Len(aidl.sinks) > AUDIO_PATCH_PORTS_MAX THEN AUDIO_PATCH_PORTS_MAX ELSE Len(aidl.sinks)
        num_sources == IF Len(aidl.sources) > AUDIO_PATCH_PORTS_MAX THEN AUDIO_PATCH_PORTS_MAX ELSE Len(aidl.sources)
    IN  aidl2legacy_AudioPatch_sources_truncating(aidl, junk, portJunk, id, num_sinks, aidl2legacy_patchPortsLoop(aidl.sinks, junk.sinks, 0, num_sinks, portJunk), num_sources)

\* The second half of aidl2legacy_AudioPatch_audio_patch, once the loop over
\* the sinks has run: the count of the sources, its check, and their loop.
aidl2legacy_AudioPatch_sources(aidl, junk, portJunk, id, num_sinks, sinks, num_sources) ==
    IF ~sinks.r.ok THEN [r |-> sinks.r, touched |-> PatchElements("sinks", sinks.touched)]
    ELSE IF ~num_sources.ok THEN [r |-> num_sources, touched |-> PatchElements("sinks", sinks.touched)]
    ELSE IF UnsignedGreater(num_sources.v, AUDIO_PATCH_PORTS_MAX) THEN Failed(PatchElements("sinks", sinks.touched))
    ELSE aidl2legacy_AudioPatch_finish(id, num_sinks.v, sinks, num_sources.v, aidl2legacy_patchPortsLoop(aidl.sources, junk.sources, 0, num_sources.v, portJunk))

\* `junk` is what the uninitialized local audio_patch held, `portJunk` what the
\* uninitialized local of each port-config conversion held. `touched` holds the
\* elements of legacy.sinks and legacy.sources written.
aidl2legacy_AudioPatch_run(aidl, junk, portJunk) ==
    LET id == aidl2legacy_int32_t_audio_patch_handle_t(aidl.id)
        num_sinks == convertIntegral_size_t_to_uint32(Len(aidl.sinks))
        num_sources == convertIntegral_size_t_to_uint32(Len(aidl.sources))
    IN  IF ~id.ok THEN [r |-> id, touched |-> {}]
        ELSE IF ~num_sinks.ok THEN [r |-> num_sinks, touched |-> {}]
        ELSE IF UnsignedGreater(num_sinks.v, AUDIO_PATCH_PORTS_MAX) THEN Failed({})
        ELSE aidl2legacy_AudioPatch_sources(aidl, junk, portJunk, id, num_sinks, aidl2legacy_patchPortsLoop(aidl.sinks, junk.sinks, 0, num_sinks.v, portJunk), num_sources)

aidl2legacy_AudioPatch_audio_patch(aidl, junk, portJunk) == aidl2legacy_AudioPatch_run(aidl, junk, portJunk).r

\* The for loop of legacy2aidl_audio_patch_AudioPatch over sinks or sources,
\* from index i: the result holds the wire vector, `touched` the indexes of the
\* legacy array read. patchPortsPush is the rest of one pass once the port at
\* index i has been converted to `port`.
RECURSIVE legacy2aidl_patchPortsLoop(_, _, _, _)
RECURSIVE legacy2aidl_patchPortsPush(_, _, _, _, _)
legacy2aidl_patchPortsPush(legacyPorts, aidlPorts, i, num, port) ==
    IF ~port.ok THEN [r |-> port, touched |-> 0 .. i]
    ELSE legacy2aidl_patchPortsLoop(legacyPorts, Append(aidlPorts, port.v), i + 1, num)

legacy2aidl_patchPortsLoop(legacyPorts, aidlPorts, i, num) ==
    IF i >= num THEN [r |-> Ok(aidlPorts), touched |-> 0 .. (i - 1)]
    ELSE legacy2aidl_patchPortsPush(legacyPorts, aidlPorts, i, num, legacy2aidl_audio_port_config_AudioPortConfig(ArrayRead(legacyPorts, i)))

\* The end of legacy2aidl_audio_patch_AudioPatch, once both loops have run.
legacy2aidl_audio_patch_finish(id, sinks, sources) ==
    IF ~sources.r.ok THEN [r |-> sources.r, touched |-> PatchElements("sinks", sinks.touched) \cup PatchElements("sources", sources.touched)]
    ELSE [r |-> Ok([id |-> id.v, sinks |-> sinks.r.v, sources |-> sources.r.v]),
          touched |-> PatchElements("sinks", sinks.touched) \cup PatchElements("sources", sources.touched)]

\* The second half of legacy2aidl_audio_patch_AudioPatch, once the loop over
\* the sinks has run.
legacy2aidl_audio_patch_sources(legacy, id, sinks) ==
    IF ~sinks.r.ok THEN [r |-> sinks.r, touched |-> PatchElements("sinks", sinks.touched)]
    ELSE IF UnsignedGreater(legacy.num_sources, AUDIO_PATCH_PORTS_MAX) THEN Failed(PatchElements("sinks", sinks.touched))
    ELSE legacy2aidl_audio_patch_finish(id, sinks, legacy2aidl_patchPortsLoop(legacy.sources, <<>>, 0, legacy.num_sources))

\* `touched` holds the elements of legacy.sinks and legacy.sources read.
legacy2aidl_audio_patch_run(legacy) ==
    LET id == legacy2aidl_audio_patch_handle_t_int32_t(legacy.id)
    IN  IF ~id.ok THEN [r |-> id, touched |-> {}]
        ELSE IF UnsignedGreater(legacy.num_sinks, AUDIO_PATCH_PORTS_MAX) THEN Failed({})
        ELSE legacy2aidl_audio_patch_sources(legacy, id, legacy2aidl_patchPortsLoop(legacy.sinks, <<>>, 0, legacy.num_sinks))

legacy2aidl_audio_patch_AudioPatch(legacy) == legacy2aidl_audio_patch_run(legacy).r

\* media::AudioIoConfigEvent (wire enum) and its legacy constants.
AudioIoConfigEvent_OUTPUT_REGISTERED == 0
AUDIO_OUTPUT_REGISTERED == 0
AudioIoConfigEvent_OUTPUT_OPENED == 1
AUDIO_OUTPUT_OPENED == 1
AudioIoConfigEvent_OUTPUT_CLOSED == 2
AUDIO_OUTPUT_CLOSED == 2
AudioIoConfigEvent_OUTPUT_CONFIG_CHANGED == 3
AUDIO_OUTPUT_CONFIG_CHANGED == 3
AudioIoConfigEvent_INPUT_REGISTERED == 4
AUDIO_INPUT_REGISTERED == 4
AudioIoConfigEvent_INPUT_OPENED == 5
AUDIO_INPUT_OPENED == 5
AudioIoConfigEvent_INPUT_CLOSED == 6
AUDIO_INPUT_CLOSED == 6
AudioIoConfigEvent_INPUT_CONFIG_CHANGED == 7
AUDIO_INPUT_CONFIG_CHANGED == 7
AudioIoConfigEvent_CLIENT_STARTED == 8
AUDIO_CLIENT_STARTED == 8

aidl2legacy_AudioIoConfigEvent_audio_io_config_event(aidl) ==
    CASE aidl = AudioIoConfigEvent_OUTPUT_REGISTERED -> Ok(AUDIO_OUTPUT_REGISTERED)
      [] aidl = AudioIoConfigEvent_OUTPUT_OPENED -> Ok(AUDIO_OUTPUT_OPENED)
      [] aidl = AudioIoConfigEvent_OUTPUT_CLOSED -> Ok(AUDIO_OUTPUT_CLOSED)
      [] aidl = AudioIoConfigEvent_OUTPUT_CONFIG_CHANGED -> Ok(AUDIO_OUTPUT_CONFIG_CHANGED)
      [] aidl = AudioIoConfigEvent_INPUT_REGISTERED -> Ok(AUDIO_INPUT_REGISTERED)
      [] aidl = AudioIoConfigEvent_INPUT_OPENED -> Ok(AUDIO_INPUT_OPENED)
      [] aidl = AudioIoConfigEvent_INPUT_CLOSED -> Ok(AUDIO_INPUT_CLOSED)
      [] aidl = AudioIoConfigEvent_INPUT_CONFIG_CHANGED -> Ok(AUDIO_INPUT_CONFIG_CHANGED)
      [] aidl = AudioIoConfigEvent_CLIENT_STARTED -> Ok(AUDIO_CLIENT_STARTED)
      [] OTHER -> Unexpected

legacy2aidl_audio_io_config_event_AudioIoConfigEvent(legacy) ==
    CASE legacy = AUDIO_OUTPUT_REGISTERED -> Ok(AudioIoConfigEvent_OUTPUT_REGISTERED)
      [] legacy = AUDIO_OUTPUT_OPENED -> Ok(AudioIoConfigEvent_OUTPUT_OPENED)
      [] legacy = AUDIO_OUTPUT_CLOSED -> Ok(AudioIoConfigEvent_OUTPUT_CLOSED)
      [] legacy = AUDIO_OUTPUT_CONFIG_CHANGED -> Ok(AudioIoConfigEvent_OUTPUT_CONFIG_CHANGED)
      [] legacy = AUDIO_INPUT_REGISTERED -> Ok(AudioIoConfigEvent_INPUT_REGISTERED)
      [] legacy = AUDIO_INPUT_OPENED -> Ok(AudioIoConfigEvent_INPUT_OPENED)
      [] legacy = AUDIO_INPUT_CLOSED -> Ok(AudioIoConfigEvent_INPUT_CLOSED)
      [] legacy = AUDIO_INPUT_CONFIG_CHANGED -> Ok(AudioIoConfigEvent_INPUT_CONFIG_CHANGED)
      [] legacy = AUDIO_CLIENT_STARTED -> Ok(AudioIoConfigEvent_CLIENT_STARTED)
      [] OTHER -> Unexpected

\* media::AudioContentType (wire enum) and its legacy constants.
AudioContentType_UNKNOWN == 0
AUDIO_CONTENT_TYPE_UNKNOWN == 0
AudioContentType_SPEECH == 1
AUDIO_CONTENT_TYPE_SPEECH == 1
AudioContentType_MUSIC == 2
AUDIO_CONTENT_TYPE_MUSIC == 2
AudioContentType_MOVIE == 3
AUDIO_CONTENT_TYPE_MOVIE == 3
AudioContentType_SONIFICATION == 4
AUDIO_CONTENT_TYPE_SONIFICATION == 4

\* The converter with a default branch that yields UNKNOWN.
aidl2legacy_AudioContentType_audio_content_type_t_defaulting(aidl) ==
    CASE aidl = AudioContentType_SPEECH -> Ok(AUDIO_CONTENT_TYPE_SPEECH)
      [] aidl = AudioContentType_MUSIC -> Ok(AUDIO_CONTENT_TYPE_MUSIC)
      [] aidl = AudioContentType_MOVIE -> Ok(AUDIO_CONTENT_TYPE_MOVIE)
      [] aidl = AudioContentType_SONIFICATION -> Ok(AUDIO_CONTENT_TYPE_SONIFICATION)
      [] OTHER -> Ok(AUDIO_CONTENT_TYPE_UNKNOWN)

aidl2legacy_AudioContentType_audio_content_type_t(aidl) ==
    CASE aidl = AudioContentType_UNKNOWN -> Ok(AUDIO_CONTENT_TYPE_UNKNOWN)
      [] aidl = AudioContentType_SPEECH -> Ok(AUDIO_CONTENT_TYPE_SPEECH)
      [] aidl = AudioContentType_MUSIC -> Ok(AUDIO_CONTENT_TYPE_MUSIC)
      [] aidl = AudioContentType_MOVIE -> Ok(AUDIO_CONTENT_TYPE_MOVIE)
      [] aidl = AudioContentType_SONIFICATION -> Ok(AUDIO_CONTENT_TYPE_SONIFICATION)
      [] OTHER -> Unexpected

\* The converter with the results of MUSIC and MOVIE exchanged.
legacy2aidl_audio_content_type_t_AudioContentType_exchanged(legacy) ==
    CASE legacy = AUDIO_CONTENT_TYPE_UNKNOWN -> Ok(AudioContentType_UNKNOWN)
      [] legacy = AUDIO_CONTENT_TYPE_SPEECH -> Ok(AudioContentType_SPEECH)
      [] legacy = AUDIO_CONTENT_TYPE_MUSIC -> Ok(AudioContentType_MOVIE)
      [] legacy = AUDIO_CONTENT_TYPE_MOVIE -> Ok(AudioContentType_MUSIC)
      [] legacy = AUDIO_CONTENT_TYPE_SONIFICATION -> Ok(AudioContentType_SONIFICATION)
      [] OTHER -> Unexpected

legacy2aidl_audio_content_type_t_AudioContentType(legacy) ==
    CASE legacy = AUDIO_CONTENT_TYPE_UNKNOWN -> Ok(AudioContentType_UNKNOWN)
      [] legacy = AUDIO_CONTENT_TYPE_SPEECH -> Ok(AudioContentType_SPEECH)
      [] legacy = AUDIO_CONTENT_TYPE_MUSIC -> Ok(AudioContentType_MUSIC)
      [] legacy = AUDIO_CONTENT_TYPE_MOVIE -> Ok(AudioContentType_MOVIE)
      [] legacy = AUDIO_CONTENT_TYPE_SONIFICATION -> Ok(AudioContentType_SONIFICATION)
      [] OTHER -> Unexpected

\* media::AudioUsage (wire enum) and its legacy constants.
AudioUsage_UNKNOWN == 0
AUDIO_USAGE_UNKNOWN == 0
AudioUsage_MEDIA == 1
AUDIO_USAGE_MEDIA == 1
AudioUsage_VOICE_COMMUNICATION == 2
AUDIO_USAGE_VOICE_COMMUNICATION == 2
AudioUsage_VOICE_COMMUNICATION_SIGNALLING == 3
AUDIO_USAGE_VOICE_COMMUNICATION_SIGNALLING == 3
AudioUsage_ALARM == 4
AUDIO_USAGE_ALARM == 4
AudioUsage_NOTIFICATION == 5
AUDIO_USAGE_NOTIFICATION == 5
AudioUsage_NOTIFICATION_TELEPHONY_RINGTONE == 6
AUDIO_USAGE_NOTIFICATION_TELEPHONY_RINGTONE == 6
AudioUsage_NOTIFICATION_COMMUNICATION_REQUEST == 7
AUDIO_USAGE_NOTIFICATION_COMMUNICATION_REQUEST == 7
AudioUsage_NOTIFICATION_COMMUNICATION_INSTANT == 8
AUDIO_USAGE_NOTIFICATION_COMMUNICATION_INSTANT == 8
AudioUsage_NOTIFICATION_COMMUNICATION_DELAYED == 9
AUDIO_USAGE_NOTIFICATION_COMMUNICATION_DELAYED == 9
AudioUsage_NOTIFICATION_EVENT == 10
AUDIO_USAGE_NOTIFICATION_EVENT == 10
AudioUsage_ASSISTANCE_ACCESSIBILITY == 11
AUDIO_USAGE_ASSISTANCE_ACCESSIBILITY == 11
AudioUsage_ASSISTANCE_NAVIGATION_GUIDANCE == 12
AUDIO_USAGE_ASSISTANCE_NAVIGATION_GUIDANCE == 12
AudioUsage_ASSISTANCE_SONIFICATION == 13
AUDIO_USAGE_ASSISTANCE_SONIFICATION == 13
AudioUsage_GAME == 14
AUDIO_USAGE_GAME == 14
AudioUsage_VIRTUAL_SOURCE == 15
AUDIO_USAGE_VIRTUAL_SOURCE == 15
AudioUsage_ASSISTANT == 16
AUDIO_USAGE_ASSISTANT == 16
AudioUsage_CALL_ASSISTANT == 17
AUDIO_USAGE_CALL_ASSISTANT == 17
AudioUsage_EMERGENCY == 1000
AUDIO_USAGE_EMERGENCY == 1000
AudioUsage_SAFETY == 1001
AUDIO_USAGE_SAFETY == 1001
AudioUsage_VEHICLE_STATUS == 1002
AUDIO_USAGE_VEHICLE_STATUS == 1002
AudioUsage_ANNOUNCEMENT == 1003
AUDIO_USAGE_ANNOUNCEMENT == 1003

aidl2legacy_AudioUsage_audio_usage_t(aidl) ==
    CASE aidl = AudioUsage_UNKNOWN -> Ok(AUDIO_USAGE_UNKNOWN)
      [] aidl = AudioUsage_MEDIA -> Ok(AUDIO_USAGE_MEDIA)
      [] aidl = AudioUsage_VOICE_COMMUNICATION -> Ok(AUDIO_USAGE_VOICE_COMMUNICATION)
      [] aidl = AudioUsage_VOICE_COMMUNICATION_SIGNALLING -> Ok(AUDIO_USAGE_VOICE_COMMUNICATION_SIGNALLING)
      [] aidl = AudioUsage_ALARM -> Ok(AUDIO_USAGE_ALARM)
      [] aidl = AudioUsage_NOTIFICATION -> Ok(AUDIO_USAGE_NOTIFICATION)
      [] aidl = AudioUsage_NOTIFICATION_TELEPHONY_RINGTONE -> Ok(AUDIO_USAGE_NOTIFICATION_TELEPHONY_RINGTONE)
      [] aidl = AudioUsage_NOTIFICATION_COMMUNICATION_REQUEST -> Ok(AUDIO_USAGE_NOTIFICATION_COMMUNICATION_REQUEST)
      [] aidl = AudioUsage_NOTIFICATION_COMMUNICATION_INSTANT -> Ok(AUDIO_USAGE_NOTIFICATION_COMMUNICATION_INSTANT)
      [] aidl = AudioUsage_NOTIFICATION_COMMUNICATION_DELAYED -> Ok(AUDIO_USAGE_NOTIFICATION_COMMUNICATION_DELAYED)
      [] aidl = AudioUsage_NOTIFICATION_EVENT -> Ok(AUDIO_USAGE_NOTIFICATION_EVENT)
      [] aidl = AudioUsage_ASSISTANCE_ACCESSIBILITY -> Ok(AUDIO_USAGE_ASSISTANCE_ACCESSIBILITY)
      [] aidl = AudioUsage_ASSISTANCE_NAVIGATION_GUIDANCE -> Ok(AUDIO_USAGE_ASSISTANCE_NAVIGATION_GUIDANCE)
      [] aidl = AudioUsage_ASSISTANCE_SONIFICATION -> Ok(AUDIO_USAGE_ASSISTANCE_SONIFICATION)
      [] aidl = AudioUsage_GAME -> Ok(AUDIO_USAGE_GAME)
      [] aidl = AudioUsage_VIRTUAL_SOURCE -> Ok(AUDIO_USAGE_VIRTUAL_SOURCE)
      [] aidl = AudioUsage_ASSISTANT -> Ok(AUDIO_USAGE_ASSISTANT)
      [] aidl = AudioUsage_CALL_ASSISTANT -> Ok(AUDIO_USAGE_CALL_ASSISTANT)
      [] aidl = AudioUsage_EMERGENCY -> Ok(AUDIO_USAGE_EMERGENCY)
      [] aidl = AudioUsage_SAFETY -> Ok(AUDIO_USAGE_SAFETY)
      [] aidl = AudioUsage_VEHICLE_STATUS -> Ok(AUDIO_USAGE_VEHICLE_STATUS)
      [] aidl = AudioUsage_ANNOUNCEMENT -> Ok(AUDIO_USAGE_ANNOUNCEMENT)
      [] OTHER -> Unexpected

legacy2aidl_audio_usage_t_AudioUsage(legacy) ==
    CASE legacy = AUDIO_USAGE_UNKNOWN -> Ok(AudioUsage_UNKNOWN)
      [] legacy = AUDIO_USAGE_MEDIA -> Ok(AudioUsage_MEDIA)
      [] legacy = AUDIO_USAGE_VOICE_COMMUNICATION -> Ok(AudioUsage_VOICE_COMMUNICATION)
      [] legacy = AUDIO_USAGE_VOICE_COMMUNICATION_SIGNALLING -> Ok(AudioUsage_VOICE_COMMUNICATION_SIGNALLING)
      [] legacy = AUDIO_USAGE_ALARM -> Ok(AudioUsage_ALARM)
      [] legacy = AUDIO_USAGE_NOTIFICATION -> Ok(AudioUsage_NOTIFICATION)
      [] legacy = AUDIO_USAGE_NOTIFICATION_TELEPHONY_RINGTONE -> Ok(AudioUsage_NOTIFICATION_TELEPHONY_RINGTONE)
      [] legacy = AUDIO_USAGE_NOTIFICATION_COMMUNICATION_REQUEST -> Ok(AudioUsage_NOTIFICATION_COMMUNICATION_REQUEST)
      [] legacy = AUDIO_USAGE_NOTIFICATION_COMMUNICATION_INSTANT -> Ok(AudioUsage_NOTIFICATION_COMMUNICATION_INSTANT)
      [] legacy = AUDIO_USAGE_NOTIFICATION_COMMUNICATION_DELAYED -> Ok(AudioUsage_NOTIFICATION_COMMUNICATION_DELAYED)
      [] legacy = AUDIO_USAGE_NOTIFICATION_EVENT -> Ok(AudioUsage_NOTIFICATION_EVENT)
      [] legacy = AUDIO_USAGE_ASSISTANCE_ACCESSIBILITY -> Ok(AudioUsage_ASSISTANCE_ACCESSIBILITY)
      [] legacy = AUDIO_USAGE_ASSISTANCE_NAVIGATION_GUIDANCE -> Ok(AudioUsage_ASSISTANCE_NAVIGATION_GUIDANCE)
      [] legacy = AUDIO_USAGE_ASSISTANCE_SONIFICATION -> Ok(AudioUsage_ASSISTANCE_SONIFICATION)
      [] legacy = AUDIO_USAGE_GAME -> Ok(AudioUsage_GAME)
      [] legacy = AUDIO_USAGE_VIRTUAL_SOURCE -> Ok(AudioUsage_VIRTUAL_SOURCE)
      [] legacy = AUDIO_USAGE_ASSISTANT -> Ok(AudioUsage_ASSISTANT)
      [] legacy = AUDIO_USAGE_CALL_ASSISTANT -> Ok(AudioUsage_CALL_ASSISTANT)
      [] legacy = AUDIO_USAGE_EMERGENCY -> Ok(AudioUsage_EMERGENCY)
      [] legacy = AUDIO_USAGE_SAFETY -> Ok(AudioUsage_SAFETY)
      [] legacy = AUDIO_USAGE_VEHICLE_STATUS -> Ok(AudioUsage_VEHICLE_STATUS)
      [] legacy = AUDIO_USAGE_ANNOUNCEMENT -> Ok(AudioUsage_ANNOUNCEMENT)
      [] OTHER -> Unexpected

\* media::AudioEncapsulationMode (wire enum) and its legacy constants.
AudioEncapsulationMode_NONE == 0
AUDIO_ENCAPSULATION_MODE_NONE == 0
AudioEncapsulationMode_ELEMENTARY_STREAM == 1
AUDIO_ENCAPSULATION_MODE_ELEMENTARY_STREAM == 1
AudioEncapsulationMode_HANDLE == 2
AUDIO_ENCAPSULATION_MODE_HANDLE == 2

aidl2legacy_audio_encapsulation_mode_t_AudioEncapsulationMode(aidl) ==
    CASE aidl = AudioEncapsulationMode_NONE -> Ok(AUDIO_ENCAPSULATION_MODE_NONE)
      [] aidl = AudioEncapsulationMode_ELEMENTARY_STREAM -> Ok(AUDIO_ENCAPSULATION_MODE_ELEMENTARY_STREAM)
      [] aidl = AudioEncapsulationMode_HANDLE -> Ok(AUDIO_ENCAPSULATION_MODE_HANDLE)
      [] OTHER -> Unexpected

legacy2aidl_AudioEncapsulationMode_audio_encapsulation_mode_t(legacy) ==
    CASE legacy = AUDIO_ENCAPSULATION_MODE_NONE -> Ok(AudioEncapsulationMode_NONE)
      [] legacy = AUDIO_ENCAPSULATION_MODE_ELEMENTARY_STREAM -> Ok(AudioEncapsulationMode_ELEMENTARY_STREAM)
      [] legacy = AUDIO_ENCAPSULATION_MODE_HANDLE -> Ok(AudioEncapsulationMode_HANDLE)
      [] OTHER -> Unexpected
\* ---------------------------------------------------------------------------
\* Integers of 16 and 64 bits.
\*
\* A 64-bit integer is held as its two 32-bit words [hi, lo]: for int64_t hi is
\* the signed high word, for uint64_t and a 64-bit size_t hi is the pattern of
\* the high word. size_t has SizeBits bits, 32 or 64 with the ABI built for; a
\* 32-bit size_t is held with hi = 0.

Wide(hi, lo) == [hi |-> hi, lo |-> lo]

UINT16_MAX == 65535

\* convertIntegral<To>(from) fails with BAD_VALUE when `from` is not
\* representable in To, and otherwise returns the equal value of type To.
convertIntegral_int32_to_uint16(from) == IF from < 0 \/ from > UINT16_MAX THEN Unexpected ELSE Ok(from)

convertIntegral_uint16_to_int32(from) == Ok(from)

convertIntegral_int64_to_uint32(from) == IF from.hi # 0 THEN Unexpected ELSE Ok(from.lo)

convertIntegral_uint32_to_int64(from) == Ok(Wide(0, from))

convertIntegral_int64_to_int64(from) == Ok(from)

convertIntegral_int64_to_size_t(from, SizeBits) ==
    IF SizeBits = 32
    THEN (IF from.hi # 0 THEN Unexpected ELSE Ok(from))
    ELSE (IF from.hi < 0 THEN Unexpected ELSE Ok(from))

convertIntegral_size_t_to_int64(from, SizeBits) ==
    IF SizeBits = 32 THEN Ok(from)
    ELSE (IF from.hi < 0 THEN Unexpected ELSE Ok(from))

\* ---------------------------------------------------------------------------
\* I/O descriptor.

\* The descriptor made of the nine field conversions, or the first failure
\* among them in the order of the code.
AudioIoDescriptor_legacy(mIoHandle, mPatch, mSamplingRate, mFormat, mChannelMask, mFrameCount, mFrameCountHAL, mLatency, mPortId) ==
    LET failure == FirstFailure(<<mIoHandle, mPatch, mSamplingRate, mFormat, mChannelMask, mFrameCount, mFrameCountHAL, mLatency, mPortId>>)
    IN  IF ~failure.ok THEN failure
        ELSE Ok([mIoHandle |-> mIoHandle.v, mPatch |-> mPatch.v, mSamplingRate |-> mSamplingRate.v, mFormat |-> mFormat.v, mChannelMask |-> mChannelMask.v, mFrameCount |-> mFrameCount.v, mFrameCountHAL |-> mFrameCountHAL.v, mLatency |-> mLatency.v, mPortId |-> mPortId.v])

\* The descriptor with the latency reinterpreted instead of range-checked.
aidl2legacy_AudioIoDescriptor_AudioIoDescriptor_uncheckedLatency(aidl, SizeBits, junk, portJunk) ==
    AudioIoDescriptor_legacy(aidl2legacy_int32_t_audio_io_handle_t(aidl.ioHandle),
                             aidl2legacy_AudioPatch_audio_patch(aidl.patch, junk, portJunk),
                             convertIntegral_int32_to_uint32(aidl.samplingRate),
                             aidl2legacy_AudioFormat_audio_format_t(aidl.format),
                             aidl2legacy_int32_t_audio_channel_mask_t(aidl.channelMask),
                             convertIntegral_int64_to_size_t(aidl.frameCount, SizeBits),
                             convertIntegral_int64_to_size_t(aidl.frameCountHAL, SizeBits),
                             Ok(convertReinterpret(aidl.latency)),
                             aidl2legacy_int32_t_audio_port_handle_t(aidl.portId))

\* The result holds the fields of the AudioIoDescriptor the returned pointer
\* refers to. `junk` and `portJunk` are the uninitialized locals of the patch
\* and port-config conversions.
aidl2legacy_AudioIoDescriptor_AudioIoDescriptor(aidl, SizeBits, junk, portJunk) ==
    AudioIoDescriptor_legacy(aidl2legacy_int32_t_audio_io_handle_t(aidl.ioHandle),
                             aidl2legacy_AudioPatch_audio_patch(aidl.patch, junk, portJunk),
                             convertIntegral_int32_to_uint32(aidl.samplingRate),
                             aidl2legacy_AudioFormat_audio_format_t(aidl.format),
                             aidl2legacy_int32_t_audio_channel_mask_t(aidl.channelMask),
                             convertIntegral_int64_to_size_t(aidl.frameCount, SizeBits),
                             convertIntegral_int64_to_size_t(aidl.frameCountHAL, SizeBits),
                             convertIntegral_int32_to_uint32(aidl.latency),
                             aidl2legacy_int32_t_audio_port_handle_t(aidl.portId))

\* The wire descriptor made of the nine field conversions, or the first
\* failure among them in the order of the code.
AudioIoDescriptor_aidl(ioHandle, patch, samplingRate, format, channelMask, frameCount, frameCountHAL, latency, portId) ==
    LET failure == FirstFailure(<<ioHandle, patch, samplingRate, format, channelMask, frameCount, frameCountHAL, latency, portId>>)
    IN  IF ~failure.ok THEN failure
        ELSE Ok([ioHandle |-> ioHandle.v, patch |-> patch.v, samplingRate |-> samplingRate.v, format |-> format.v, channelMask |-> channelMask.v, frameCount |-> frameCount.v, frameCountHAL |-> frameCountHAL.v, latency |-> latency.v, portId |-> portId.v])

\* `legacy` holds the fields of the AudioIoDescriptor the pointer refers to.
legacy2aidl_AudioIoDescriptor_AudioIoDescriptor(legacy, SizeBits) ==
    AudioIoDescriptor_aidl(legacy2aidl_audio_io_handle_t_int32_t(legacy.mIoHandle),
                           legacy2aidl_audio_patch_AudioPatch(legacy.mPatch),
                           convertIntegral_uint32_to_int32(legacy.mSamplingRate),
                           legacy2aidl_audio_format_t_AudioFormat(legacy.mFormat),
                           legacy2aidl_audio_channel_mask_t_int32_t(legacy.mChannelMask),
                           convertIntegral_size_t_to_int64(legacy.mFrameCount, SizeBits),
                           convertIntegral_size_t_to_int64(legacy.mFrameCountHAL, SizeBits),
                           convertIntegral_uint32_to_int32(legacy.mLatency),
                           legacy2aidl_audio_port_handle_t_int32_t(legacy.mPortId))

\* ---------------------------------------------------------------------------
\* Client.

aidl2legacy_int32_t_audio_unique_id_t(aidl) == Ok(convertReinterpret(aidl))

legacy2aidl_audio_unique_id_t_int32_t(legacy) == Ok(convertReinterpret(legacy))

aidl2legacy_int32_t_pid_t(aidl) == Ok(convertReinterpret(aidl))

legacy2aidl_pid_t_int32_t(legacy) == Ok(convertReinterpret(legacy))

\* The converter with a range check in place of the reinterpretation.
aidl2legacy_int32_t_uid_t_rangeChecked(aidl) == convertIntegral_int32_to_uint32(aidl)

aidl2legacy_int32_t_uid_t(aidl) == Ok(convertReinterpret(aidl))

legacy2aidl_uid_t_int32_t(legacy) == Ok(convertReinterpret(legacy))

\* String16(aidl.data(), aidl.size()), for a string of ASCII bytes: one
\* 16-bit unit for each byte.
aidl2legacy_string_view_String16(aidl) == Ok([i \in 1 .. Len(aidl) |-> aidl[i] % 65536])

\* std::string(String8(legacy).c_str()), for a string of ASCII units: one byte
\* for each unit before the first NUL.
legacy2aidl_String16_string(legacy) ==
    LET nuls == {i \in 1 .. Len(legacy) : legacy[i] = 0}
        n == IF nuls = {} THEN Len(legacy) ELSE (CHOOSE i \in nuls : \A k \in nuls : i <= k) - 1
    IN  Ok([i \in 1 .. n |-> legacy[i] % 256])

aidl2legacy_AudioClient(aidl) ==
    LET clientUid == aidl2legacy_int32_t_uid_t(aidl.clientUid)
        clientPid == aidl2legacy_int32_t_pid_t(aidl.clientPid)
        clientTid == aidl2legacy_int32_t_pid_t(aidl.clientTid)
        packageName == aidl2legacy_string_view_String16(aidl.packageName)
    IN  ValueOrReturn(<<"clientUid", "clientPid", "clientTid", "packageName">>, <<clientUid, clientPid, clientTid, packageName>>)

legacy2aidl_AudioClient(legacy) ==
    LET clientUid == legacy2aidl_uid_t_int32_t(legacy.clientUid)
        clientPid == legacy2aidl_pid_t_int32_t(legacy.clientPid)
        clientTid == legacy2aidl_pid_t_int32_t(legacy.clientTid)
        packageName == legacy2aidl_String16_string(legacy.packageName)
    IN  ValueOrReturn(<<"clientUid", "clientPid", "clientTid", "packageName">>, <<clientUid, clientPid, clientTid, packageName>>)

\* ---------------------------------------------------------------------------
\* Attributes.

AUDIO_ATTRIBUTES_TAGS_MAX_SIZE == 256

\* `junk` is what the uninitialized local audio_attributes_t held.
aidl2legacy_AudioAttributesInternal_audio_attributes_t(aidl, junk) ==
    LET content_type == aidl2legacy_AudioContentType_audio_content_type_t(aidl.contentType)
        usage == aidl2legacy_AudioUsage_audio_usage_t(aidl.usage)
        source == aidl2legacy_AudioSourceType_audio_source_t(aidl.source)
        flags == aidl2legacy_int32_t_audio_flags_mask_t_mask(aidl.flags)
        tags == aidl2legacy_string(aidl.tags, junk.tags, AUDIO_ATTRIBUTES_TAGS_MAX_SIZE)
    IN  ValueOrReturn(<<"content_type", "usage", "source", "flags", "tags">>, <<content_type, usage, source, flags, tags>>)

legacy2aidl_audio_attributes_t_AudioAttributesInternal(legacy) ==
    LET contentType == legacy2aidl_audio_content_type_t_AudioContentType(legacy.content_type)
        usage == legacy2aidl_audio_usage_t_AudioUsage(legacy.usage)
        source == legacy2aidl_audio_source_t_AudioSourceType(legacy.source)
        flags == legacy2aidl_audio_flags_mask_t_int32_t_mask(legacy.flags)
        tags == legacy2aidl_string([null |-> FALSE, bytes |-> legacy.tags], AUDIO_ATTRIBUTES_TAGS_MAX_SIZE)
    IN  ValueOrReturn(<<"contentType", "usage", "source", "flags", "tags">>, <<contentType, usage, source, flags, tags>>)

\* ---------------------------------------------------------------------------
\* Config base, offload info and config.

aidl2legacy_AudioConfigBase_audio_config_base_t(aidl) ==
    LET sample_rate == convertIntegral_int32_to_uint32(aidl.sampleRate)
        channel_mask == aidl2legacy_int32_t_audio_channel_mask_t(aidl.channelMask)
        format == aidl2legacy_AudioFormat_audio_format_t(aidl.format)
    IN  ValueOrReturn(<<"sample_rate", "channel_mask", "format">>, <<sample_rate, channel_mask, format>>)

legacy2aidl_audio_config_base_t_AudioConfigBase(legacy) ==
    LET sampleRate == convertIntegral_uint32_to_int32(legacy.sample_rate)
        channelMask == legacy2aidl_audio_channel_mask_t_int32_t(legacy.channel_mask)
        format == legacy2aidl_audio_format_t_AudioFormat(legacy.format)
    IN  ValueOrReturn(<<"sampleRate", "channelMask", "format">>, <<sampleRate, channelMask, format>>)

\* sizeof(audio_offload_info_t), and the sizes of its version 0.1 and 0.2
\* layouts: offsetof(usage) + sizeof(usage), offsetof(sync_id) + sizeof(sync_id).
AUDIO_OFFLOAD_INFO_SIZE == 64

AUDIO_OFFLOAD_INFO_SIZE_0_1 == 48

AUDIO_OFFLOAD_INFO_SIZE_0_2 == 60

AUDIO_OFFLOAD_INFO_VERSION_0_2 == 2

\* The offload info with the size of the version 0.1 layout written.
aidl2legacy_AudioOffloadInfo_audio_offload_info_t_size_0_1(aidl) ==
    LET version == convertIntegral_int32_to_uint16(aidl.version)
        config == aidl2legacy_AudioConfigBase_audio_config_base_t(aidl.config)
        stream_type == aidl2legacy_AudioStreamType_audio_stream_type_t(aidl.streamType)
        bit_rate == convertIntegral_int32_to_uint32(aidl.bitRate)
        duration_us == convertIntegral_int64_to_int64(aidl.durationUs)
        bit_width == convertIntegral_int32_to_uint32(aidl.bitWidth)
        offload_buffer_size == convertIntegral_int32_to_uint32(aidl.offloadBufferSize)
        usage == aidl2legacy_AudioUsage_audio_usage_t(aidl.usage)
        encapsulation_mode == aidl2legacy_audio_encapsulation_mode_t_AudioEncapsulationMode(aidl.encapsulationMode)
        content_id == Ok(convertReinterpret(aidl.contentId))
        sync_id == Ok(convertReinterpret(aidl.syncId))
        failure == FirstFailure(<<version, config, stream_type, bit_rate, duration_us, bit_width, offload_buffer_size, usage, encapsulation_mode, content_id, sync_id>>)
    IN  IF ~failure.ok THEN failure
        ELSE Ok([version |-> version.v, size |-> AUDIO_OFFLOAD_INFO_SIZE_0_1, sample_rate |-> config.v.sample_rate, channel_mask |-> config.v.channel_mask,
                 format |-> config.v.format, stream_type |-> stream_type.v, bit_rate |-> bit_rate.v, duration_us |-> duration_us.v,
                 has_video |-> aidl.hasVideo, is_streaming |-> aidl.isStreaming, bit_width |-> bit_width.v, offload_buffer_size |-> offload_buffer_size.v,
                 usage |-> usage.v, encapsulation_mode |-> encapsulation_mode.v, content_id |-> content_id.v, sync_id |-> sync_id.v])

aidl2legacy_AudioOffloadInfo_audio_offload_info_t(aidl) ==
    LET version == convertIntegral_int32_to_uint16(aidl.version)
        config == aidl2legacy_AudioConfigBase_audio_config_base_t(aidl.config)
        stream_type == aidl2legacy_AudioStreamType_audio_stream_type_t(aidl.streamType)
        bit_rate == convertIntegral_int32_to_uint32(aidl.bitRate)
        duration_us == convertIntegral_int64_to_int64(aidl.durationUs)
        bit_width == convertIntegral_int32_to_uint32(aidl.bitWidth)
        offload_buffer_size == convertIntegral_int32_to_uint32(aidl.offloadBufferSize)
        usage == aidl2legacy_AudioUsage_audio_usage_t(aidl.usage)
        encapsulation_mode == aidl2legacy_audio_encapsulation_mode_t_AudioEncapsulationMode(aidl.encapsulationMode)
        content_id == Ok(convertReinterpret(aidl.contentId))
        sync_id == Ok(convertReinterpret(aidl.syncId))
        failure == FirstFailure(<<version, config, stream_type, bit_rate, duration_us, bit_width, offload_buffer_size, usage, encapsulation_mode, content_id, sync_id>>)
    IN  IF ~failure.ok THEN failure
        ELSE Ok([version |-> version.v, size |-> AUDIO_OFFLOAD_INFO_SIZE, sample_rate |-> config.v.sample_rate, channel_mask |-> config.v.channel_mask,
                 format |-> config.v.format, stream_type |-> stream_type.v, bit_rate |-> bit_rate.v, duration_us |-> duration_us.v,
                 has_video |-> aidl.hasVideo, is_streaming |-> aidl.isStreaming, bit_width |-> bit_width.v, offload_buffer_size |-> offload_buffer_size.v,
                 usage |-> usage.v, encapsulation_mode |-> encapsulation_mode.v, content_id |-> content_id.v, sync_id |-> sync_id.v])

\* The fields of a default-constructed media::AudioOffloadInfo that version 0.1
\* leaves unset.
DefaultAudioOffloadInfo == [encapsulationMode |-> 0, contentId |-> 0, syncId |-> 0]

\* A size check of legacy2aidl_audio_offload_info_t_AudioOffloadInfo, as a
\* step that fails or yields nothing.
offloadSizeCheck(size, needed) == IF size < needed THEN Unexpected ELSE Ok(<<>>)

\* The offload info with the version 0.2 fields converted whatever the version.
legacy2aidl_audio_offload_info_t_AudioOffloadInfo_anyVersion(legacy) ==
    LET size_0_1 == offloadSizeCheck(legacy.size, AUDIO_OFFLOAD_INFO_SIZE_0_1)
        version == convertIntegral_uint16_to_int32(legacy.version)
        sampleRate == convertIntegral_uint32_to_int32(legacy.sample_rate)
        channelMask == legacy2aidl_audio_channel_mask_t_int32_t(legacy.channel_mask)
        format == legacy2aidl_audio_format_t_AudioFormat(legacy.format)
        streamType == legacy2aidl_audio_stream_type_t_AudioStreamType(legacy.stream_type)
        bitRate == convertIntegral_uint32_to_int32(legacy.bit_rate)
        durationUs == convertIntegral_int64_to_int64(legacy.duration_us)
        bitWidth == convertIntegral_uint32_to_int32(legacy.bit_width)
        offloadBufferSize == convertIntegral_uint32_to_int32(legacy.offload_buffer_size)
        usage == legacy2aidl_audio_usage_t_AudioUsage(legacy.usage)
        has_0_2 == TRUE
        size_0_2 == IF has_0_2 THEN offloadSizeCheck(legacy.size, AUDIO_OFFLOAD_INFO_SIZE_0_2) ELSE Ok(<<>>)
        encapsulationMode == IF has_0_2 THEN legacy2aidl_AudioEncapsulationMode_audio_encapsulation_mode_t(legacy.encapsulation_mode) ELSE Ok(DefaultAudioOffloadInfo.encapsulationMode)
        contentId == IF has_0_2 THEN Ok(convertReinterpret(legacy.content_id)) ELSE Ok(DefaultAudioOffloadInfo.contentId)
        syncId == IF has_0_2 THEN Ok(convertReinterpret(legacy.sync_id)) ELSE Ok(DefaultAudioOffloadInfo.syncId)
        failure == FirstFailure(<<size_0_1, version, sampleRate, channelMask, format, streamType, bitRate, durationUs, bitWidth, offloadBufferSize, usage, size_0_2, encapsulationMode, contentId, syncId>>)
    IN  IF ~failure.ok THEN failure
        ELSE Ok([version |-> version.v, config |-> [sampleRate |-> sampleRate.v, channelMask |-> channelMask.v, format |-> format.v],
                 streamType |-> streamType.v, bitRate |-> bitRate.v, durationUs |-> durationUs.v, hasVideo |-> legacy.has_video, isStreaming |-> legacy.is_streaming,
                 bitWidth |-> bitWidth.v, offloadBufferSize |-> offloadBufferSize.v, usage |-> usage.v,
                 encapsulationMode |-> encapsulationMode.v, contentId |-> contentId.v, syncId |-> syncId.v])

legacy2aidl_audio_offload_info_t_AudioOffloadInfo(legacy) ==
    LET size_0_1 == offloadSizeCheck(legacy.size, AUDIO_OFFLOAD_INFO_SIZE_0_1)
        version == convertIntegral_uint16_to_int32(legacy.version)
        sampleRate == convertIntegral_uint32_to_int32(legacy.sample_rate)
        channelMask == legacy2aidl_audio_channel_mask_t_int32_t(legacy.channel_mask)
        format == legacy2aidl_audio_format_t_AudioFormat(legacy.format)
        streamType == legacy2aidl_audio_stream_type_t_AudioStreamType(legacy.stream_type)
        bitRate == convertIntegral_uint32_to_int32(legacy.bit_rate)
        durationUs == convertIntegral_int64_to_int64(legacy.duration_us)
        bitWidth == convertIntegral_uint32_to_int32(legacy.bit_width)
        offloadBufferSize == convertIntegral_uint32_to_int32(legacy.offload_buffer_size)
        usage == legacy2aidl_audio_usage_t_AudioUsage(legacy.usage)
        has_0_2 == legacy.version >= AUDIO_OFFLOAD_INFO_VERSION_0_2
        size_0_2 == IF has_0_2 THEN offloadSizeCheck(legacy.size, AUDIO_OFFLOAD_INFO_SIZE_0_2) ELSE Ok(<<>>)
        encapsulationMode == IF has_0_2 THEN legacy2aidl_AudioEncapsulationMode_audio_encapsulation_mode_t(legacy.encapsulation_mode) ELSE Ok(DefaultAudioOffloadInfo.encapsulationMode)
        contentId == IF has_0_2 THEN Ok(convertReinterpret(legacy.content_id)) ELSE Ok(DefaultAudioOffloadInfo.contentId)
        syncId == IF has_0_2 THEN Ok(convertReinterpret(legacy.sync_id)) ELSE Ok(DefaultAudioOffloadInfo.syncId)
        failure == FirstFailure(<<size_0_1, version, sampleRate, channelMask, format, streamType, bitRate, durationUs, bitWidth, offloadBufferSize, usage, size_0_2, encapsulationMode, contentId, syncId>>)
    IN  IF ~failure.ok THEN failure
        ELSE Ok([version |-> version.v, config |-> [sampleRate |-> sampleRate.v, channelMask |-> channelMask.v, format |-> format.v],
                 streamType |-> streamType.v, bitRate |-> bitRate.v, durationUs |-> durationUs.v, hasVideo |-> legacy.has_video, isStreaming |-> legacy.is_streaming,
                 bitWidth |-> bitWidth.v, offloadBufferSize |-> offloadBufferSize.v, usage |-> usage.v,
                 encapsulationMode |-> encapsulationMode.v, contentId |-> contentId.v, syncId |-> syncId.v])

\* The config that keeps what converted when the offload info does not.
aidl2legacy_AudioConfig_audio_config_t_partial(aidl) ==
    LET sample_rate == convertIntegral_int32_to_uint32(aidl.sampleRate)
        channel_mask == aidl2legacy_int32_t_audio_channel_mask_t(aidl.channelMask)
        format == aidl2legacy_AudioFormat_audio_format_t(aidl.format)
        offload_info == aidl2legacy_AudioOffloadInfo_audio_offload_info_t(aidl.offloadInfo)
        frame_count == convertIntegral_int64_to_uint32(aidl.frameCount)
        failure == FirstFailure(<<sample_rate, channel_mask, format, frame_count>>)
    IN  IF ~failure.ok THEN failure
        ELSE Ok([sample_rate |-> sample_rate.v, channel_mask |-> channel_mask.v, format |-> format.v, offload_info |-> offload_info.v, frame_count |-> frame_count.v])

aidl2legacy_AudioConfig_audio_config_t(aidl) ==
    LET sample_rate == convertIntegral_int32_to_uint32(aidl.sampleRate)
        channel_mask == aidl2legacy_int32_t_audio_channel_mask_t(aidl.channelMask)
        format == aidl2legacy_AudioFormat_audio_format_t(aidl.format)
        offload_info == aidl2legacy_AudioOffloadInfo_audio_offload_info_t(aidl.offloadInfo)
        frame_count == convertIntegral_int64_to_uint32(aidl.frameCount)
    IN  ValueOrReturn(<<"sample_rate", "channel_mask", "format", "offload_info", "frame_count">>, <<sample_rate, channel_mask, format, offload_info, frame_count>>)

legacy2aidl_audio_config_t_AudioConfig(legacy) ==
    LET sampleRate == convertIntegral_uint32_to_int32(legacy.sample_rate)
        channelMask == legacy2aidl_audio_channel_mask_t_int32_t(legacy.channel_mask)
        format == legacy2aidl_audio_format_t_AudioFormat(legacy.format)
        offloadInfo == legacy2aidl_audio_offload_info_t_AudioOffloadInfo(legacy.offload_info)
        frameCount == convertIntegral_uint32_to_int64(legacy.frame_count)
    IN  ValueOrReturn(<<"sampleRate", "channelMask", "format", "offloadInfo", "frameCount">>, <<sampleRate, channelMask, format, offloadInfo, frameCount>>)

\* ---------------------------------------------------------------------------
\* Invocations on several threads. Each thread runs one invocation at a time,
\* statement by statement; its locals are its own, the heap is shared.

MaxThreads == 2

Threads == 1 .. MaxThreads

\* A thread that is in no converter.
NotRunning == [pc |-> "idle", call |-> "none", input |-> <<>>, local |-> <<>>, result |-> <<>>]

\* The locals of convertBitmask on entry: dest, usrc and srcBitIndex.
convertBitmaskEntry(src) == [dest |-> 0, usrc |-> src, srcBitIndex |-> 0]

\* One evaluation of the loop condition of convertBitmask and, when it holds,
\* of the loop body, on the locals of one invocation: the invocation returns
\* dest, returns the per-bit converter's error, or goes round again.
convertBitmaskStep(local, enumConversion, srcIndexToEnum, destEnumToMask) ==
    IF local.usrc = 0 THEN [returns |-> TRUE, result |-> Ok(local.dest), local |-> local]
    ELSE IF LowBit(local.usrc) = 1
         THEN LET srcEnum == srcIndexToEnum[local.srcBitIndex]
                  destEnum == enumConversion[srcEnum]
              IN  IF ~destEnum.ok THEN [returns |-> TRUE, result |-> Unexpected, local |-> local]
                  ELSE [returns |-> FALSE, result |-> <<>>,
                        local |-> [dest |-> BitOr(local.dest, destEnumToMask[destEnum.v]), usrc |-> ShiftRight1(local.usrc), srcBitIndex |-> local.srcBitIndex + 1]]
         ELSE [returns |-> FALSE, result |-> <<>>,
               local |-> [dest |-> local.dest, usrc |-> ShiftRight1(local.usrc), srcBitIndex |-> local.srcBitIndex + 1]]

\* A static descriptor instead of an allocation: every call hands out the
\* same object.
newAudioIoDescriptor_static(h) == 1

\* new AudioIoDescriptor(): the address of an object that is not live. The
\* allocator hands out the lowest free address.
newAudioIoDescriptor(h) == CHOOSE p \in 1 .. (Cardinality(DOMAIN h) + 1) : p \notin DOMAIN h /\ \A q \in 1 .. (p - 1) : q \in DOMAIN h

\* The object just constructed: none of the nine fields has been assigned yet.
FreshAudioIoDescriptor == <<>>

\* heap with the object at p replaced by (or created as) object.
heapStore(h, p, object) == [q \in DOMAIN h \cup {p} |-> IF q = p THEN object ELSE h[q]]

\* heap without the object at p.
heapDelete(h, p) == [q \in DOMAIN h \ {p} |-> h[q]]

\* legacy->name = value on an object.
assignField(object, name, value) == [f \in DOMAIN object \cup {name} |-> IF f = name THEN value ELSE object[f]]

\* The nine assignments of aidl2legacy_AudioIoDescriptor_AudioIoDescriptor in
\* the order of the code: the field the k-th one assigns and the conversion
\* whose value it takes.
AudioIoDescriptorAssignments == 9

aidl2legacy_AudioIoDescriptor_assignment(aidl, SizeBits, junk, portJunk, k) ==
    CASE k = 1 -> [field |-> "mIoHandle", value |-> aidl2legacy_int32_t_audio_io_handle_t(aidl.ioHandle)]
      [] k = 2 -> [field |-> "mPatch", value |-> aidl2legacy_AudioPatch_audio_patch(aidl.patch, junk, portJunk)]
      [] k = 3 -> [field |-> "mSamplingRate", value |-> convertIntegral_int32_to_uint32(aidl.samplingRate)]
      [] k = 4 -> [field |-> "mFormat", value |-> aidl2legacy_AudioFormat_audio_format_t(aidl.format)]
      [] k = 5 -> [field |-> "mChannelMask", value |-> aidl2legacy_int32_t_audio_channel_mask_t(aidl.channelMask)]
      [] k = 6 -> [field |-> "mFrameCount", value |-> convertIntegral_int64_to_size_t(aidl.frameCount, SizeBits)]
      [] k = 7 -> [field |-> "mFrameCountHAL", value |-> convertIntegral_int64_to_size_t(aidl.frameCountHAL, SizeBits)]
      [] k = 8 -> [field |-> "mLatency", value |-> convertIntegral_int32_to_uint32(aidl.latency)]
      [] k = 9 -> [field |-> "mPortId", value |-> aidl2legacy_int32_t_audio_port_handle_t(aidl.portId)]

\* ---------------------------------------------------------------------------
\* Calls. A caller calls one converter with arguments of its choice and then
\* drops the result.

Idle == "idle"

NoValue == <<>>

Init == op = Idle /\ arg = NoValue /\ res = Ok(NoValue) /\ touched = {} /\ threads = [t \in Threads |-> NotRunning] /\ heap = <<>>

Return == op # Idle /\ op' = Idle /\ arg' = NoValue /\ res' = Ok(NoValue) /\ touched' = {} /\ UNCHANGED <<threads, heap>>

\* The effect of a call of a converter that touches no legacy array.
Call1(name, x, result) == op' = name /\ arg' = x /\ res' = result /\ touched' = {} /\ UNCHANGED <<threads, heap>>

\* The masks the callers try: every word with at most MaxSetBits bits set.
MaxSetBits == 2

RECURSIVE MasksUpTo(_)
MasksUpTo(k) ==
    IF k = 0 THEN {0}
    ELSE LET p == MasksUpTo(k - 1)
         IN  p \cup {BitOr(m, OneShl(i)) : m \in p, i \in BitIndexes}

Masks == MasksUpTo(MaxSetBits)

Call_aidl2legacy_int32_t_config_mask ==
    op = Idle /\ \E aidl \in Masks : Call1("aidl2legacy_int32_t_config_mask", aidl, aidl2legacy_int32_t_config_mask(aidl))

Call_legacy2aidl_config_mask_int32_t ==
    op = Idle /\ \E legacy \in Masks : Call1("legacy2aidl_config_mask_int32_t", legacy, legacy2aidl_config_mask_int32_t(legacy))

Call_aidl2legacy_int32_t_audio_gain_mode_t ==
    op = Idle /\ \E aidl \in Masks : Call1("aidl2legacy_int32_t_audio_gain_mode_t", aidl, aidl2legacy_int32_t_audio_gain_mode_t(aidl))

Call_legacy2aidl_audio_gain_mode_t_int32_t ==
    op = Idle /\ \E legacy \in Masks : Call1("legacy2aidl_audio_gain_mode_t_int32_t", legacy, legacy2aidl_audio_gain_mode_t_int32_t(legacy))

Call_aidl2legacy_audio_input_flags_mask ==
    op = Idle /\ \E aidl \in Masks : Call1("aidl2legacy_audio_input_flags_mask", aidl, aidl2legacy_audio_input_flags_mask(aidl))

Call_legacy2aidl_audio_input_flags_mask ==
    op = Idle /\ \E legacy \in Masks : Call1("legacy2aidl_audio_input_flags_mask", legacy, legacy2aidl_audio_input_flags_mask(legacy))

Call_aidl2legacy_audio_output_flags_mask ==
    op = Idle /\ \E aidl \in Masks : Call1("aidl2legacy_audio_output_flags_mask", aidl, aidl2legacy_audio_output_flags_mask(aidl))

Call_legacy2aidl_audio_output_flags_mask ==
    op = Idle /\ \E legacy \in Masks : Call1("legacy2aidl_audio_output_flags_mask", legacy, legacy2aidl_audio_output_flags_mask(legacy))

Call_aidl2legacy_int32_t_audio_flags_mask_t_mask ==
    op = Idle /\ \E aidl \in Masks : Call1("aidl2legacy_int32_t_audio_flags_mask_t_mask", aidl, aidl2legacy_int32_t_audio_flags_mask_t_mask(aidl))

Call_legacy2aidl_audio_flags_mask_t_int32_t_mask ==
    op = Idle /\ \E legacy \in Masks : Call1("legacy2aidl_audio_flags_mask_t_int32_t_mask", legacy, legacy2aidl_audio_flags_mask_t_int32_t_mask(legacy))

NextMask ==
    \/ Call_aidl2legacy_int32_t_config_mask
    \/ Call_legacy2aidl_config_mask_int32_t
    \/ Call_aidl2legacy_int32_t_audio_gain_mode_t
    \/ Call_legacy2aidl_audio_gain_mode_t_int32_t
    \/ Call_aidl2legacy_audio_input_flags_mask
    \/ Call_legacy2aidl_audio_input_flags_mask
    \/ Call_aidl2legacy_audio_output_flags_mask
    \/ Call_legacy2aidl_audio_output_flags_mask
    \/ Call_aidl2legacy_int32_t_audio_flags_mask_t_mask
    \/ Call_legacy2aidl_audio_flags_mask_t_int32_t_mask
    \/ Return

\* The callers of the bitmask converters.
SpecMask == Init /\ [][NextMask]_vars

\* The roles and types the callers try: every enum value and values outside the
\* enums, on each side of them.
RoleValues == (AudioPortRole_NONE - 1) .. (AudioPortRole_SINK + 1)

TypeValues == (AudioPortType_NONE - 1) .. (AudioPortType_SESSION + 1)

Call_direction_AudioPortRole_AudioPortType ==
    op = Idle /\ \E role \in RoleValues, type \in TypeValues :
        Call1("direction_AudioPortRole_AudioPortType", [role |-> role, type |-> type], direction_AudioPortRole_AudioPortType(role, type))

Call_direction_audio_port_role_t_audio_port_type_t ==
    op = Idle /\ \E role \in RoleValues, type \in TypeValues :
        Call1("direction_audio_port_role_t_audio_port_type_t", [role |-> role, type |-> type], direction_audio_port_role_t_audio_port_type_t(role, type))

\* The gain configs the callers try.
MaxValues == 3

ValuesLengths == (0 .. MaxValues) \cup {AUDIO_CHANNEL_COUNT_MAX, GainValuesCapacity, GainValuesCapacity + 1}

WireGainModes == {0, 1, 2, 3, 4, 6, 8}

LegacyGainModes == {0, AUDIO_GAIN_MODE_JOINT, AUDIO_GAIN_MODE_CHANNELS, AUDIO_GAIN_MODE_JOINT + AUDIO_GAIN_MODE_CHANNELS, AUDIO_GAIN_MODE_RAMP, AUDIO_GAIN_MODE_CHANNELS + AUDIO_GAIN_MODE_RAMP, 8}

\* Position masks of 0, 1, 2 and 6 channels, index masks of 3 and of 30
\* channels, and a mask of an unknown representation.
ChannelMasks == {0, 1, 3, 12, 16, 63, INT32_MIN + 7, INT32_MIN + (2 ^ AUDIO_CHANNEL_COUNT_MAX - 1), 2 ^ AUDIO_CHANNEL_COUNT_MAX + 3}

RampDurations == {10, -1}

WireGainConfigs ==
    [index : {7}, mode : WireGainModes, channelMask : ChannelMasks,
     values : {[i \in 1 .. n |-> 100 + i] : n \in ValuesLengths}, rampDurationMs : RampDurations]

LegacyGainValues == {[i \in 0 .. (GainValuesCapacity - 1) |-> base + i] : base \in {100, 200}}

LegacyGainConfigs ==
    [index : {7}, mode : LegacyGainModes, channel_mask : ChannelMasks,
     values : LegacyGainValues, ramp_duration_ms : RampDurations]

\* What uninitialized storage may hold: every word of it the same junk word.
JunkWords == {-77, -78}

\* What an uninitialized audio_gain_config may hold.
JunkGainConfig(j) == [index |-> j, mode |-> j, channel_mask |-> j, values |-> [i \in 0 .. (GainValuesCapacity - 1) |-> j], ramp_duration_ms |-> j]

JunkGainConfigs == {JunkGainConfig(j) : j \in JunkWords}

GainRoles == AudioPortRole_NONE .. (AudioPortRole_SINK + 1)

GainTypes == AudioPortType_NONE .. (AudioPortType_SESSION + 1)

Call_aidl2legacy_AudioGainConfig_audio_gain_config ==
    op = Idle /\ \E aidl \in WireGainConfigs, role \in GainRoles, type \in GainTypes, junk \in JunkGainConfigs :
        /\ op' = "aidl2legacy_AudioGainConfig_audio_gain_config"
        /\ arg' = [aidl |-> aidl, role |-> role, type |-> type, junk |-> junk]
        /\ res' = aidl2legacy_AudioGainConfig_audio_gain_config(aidl, role, type, junk)
        /\ touched' = aidl2legacy_AudioGainConfig_run(aidl, role, type, junk).touched /\ UNCHANGED <<threads, heap>>

Call_legacy2aidl_audio_gain_config_AudioGainConfig ==
    op = Idle /\ \E legacy \in LegacyGainConfigs, role \in GainRoles, type \in GainTypes :
        /\ op' = "legacy2aidl_audio_gain_config_AudioGainConfig"
        /\ arg' = [legacy |-> legacy, role |-> role, type |-> type]
        /\ res' = legacy2aidl_audio_gain_config_AudioGainConfig(legacy, role, type)
        /\ touched' = legacy2aidl_audio_gain_config_run(legacy, role, type).touched /\ UNCHANGED <<threads, heap>>

NextGain ==
    \/ Call_direction_AudioPortRole_AudioPortType
    \/ Call_direction_audio_port_role_t_audio_port_type_t
    \/ Call_aidl2legacy_AudioGainConfig_audio_gain_config
    \/ Call_legacy2aidl_audio_gain_config_AudioGainConfig
    \/ Return

\* The callers of the Direction derivation and of the gain-config converters.
SpecGain == Init /\ [][NextGain]_vars

\* ---------------------------------------------------------------------------
\* Specification of the string converters.

MaxBuf == 3

StringBytes == {0, 65, 66}

JunkBytes == {0, 90}

\* Wire strings: up to one byte more than the largest small buffer holds, NUL
\* bytes included, and runs of a letter around the address capacity.
RECURSIVE BytesOfLen(_)
BytesOfLen(n) == IF n = 0 THEN {<<>>} ELSE {Append(s, b) : s \in BytesOfLen(n - 1), b \in StringBytes}

WireStrings == UNION {BytesOfLen(n) : n \in 0 .. (MaxBuf + 1)}

LongStrings == {[i \in 1 .. n |-> 65] : n \in (AUDIO_DEVICE_MAX_ADDRESS_LEN - 2) .. (AUDIO_DEVICE_MAX_ADDRESS_LEN + 1)}

\* Buffers of a capacity and what they hold.
BuffersOf(size) == {BufferOf(s, size, 0) : s \in BytesOfLen(size)}

\* The address buffer holding n letters and NUL bytes after them.
AddressBuffer(n) == BufferOf([i \in 1 .. n |-> 65], AUDIO_DEVICE_MAX_ADDRESS_LEN, 0)

Call_aidl2legacy_string ==
    /\ op = Idle
    /\ \/ \E maxSize \in 0 .. MaxBuf, aidl \in WireStrings, fill \in JunkBytes :
             LET dest == BufferOf(<<>>, maxSize, fill)
                 run == aidl2legacy_string_run(aidl, dest, maxSize)
             IN  /\ op' = "aidl2legacy_string"
                 /\ arg' = [aidl |-> aidl, dest |-> dest, maxSize |-> maxSize]
                 /\ res' = run.r
                 /\ touched' = run.touched /\ UNCHANGED <<threads, heap>>
       \/ \E aidl \in LongStrings, fill \in JunkBytes :
             LET dest == BufferOf(<<>>, AUDIO_DEVICE_MAX_ADDRESS_LEN, fill)
                 run == aidl2legacy_string_run(aidl, dest, AUDIO_DEVICE_MAX_ADDRESS_LEN)
             IN  /\ op' = "aidl2legacy_string"
                 /\ arg' = [aidl |-> aidl, dest |-> dest, maxSize |-> AUDIO_DEVICE_MAX_ADDRESS_LEN]
                 /\ res' = run.r
                 /\ touched' = run.touched /\ UNCHANGED <<threads, heap>>

Call_legacy2aidl_string ==
    /\ op = Idle
    /\ \/ \E maxSize \in 0 .. MaxBuf, null \in BOOLEAN : \E bytes \in BuffersOf(maxSize) :
             LET legacy == [null |-> null, bytes |-> IF null THEN <<>> ELSE bytes]
                 run == legacy2aidl_string_run(legacy, maxSize)
             IN  /\ op' = "legacy2aidl_string"
                 /\ arg' = [legacy |-> legacy, maxSize |-> maxSize]
                 /\ res' = run.r
                 /\ touched' = run.touched /\ UNCHANGED <<threads, heap>>
       \/ \E n \in 0 .. AUDIO_DEVICE_MAX_ADDRESS_LEN :
             LET legacy == [null |-> FALSE, bytes |-> AddressBuffer(n)]
                 run == legacy2aidl_string_run(legacy, AUDIO_DEVICE_MAX_ADDRESS_LEN)
             IN  /\ op' = "legacy2aidl_string"
                 /\ arg' = [legacy |-> legacy, maxSize |-> AUDIO_DEVICE_MAX_ADDRESS_LEN]
                 /\ res' = run.r
                 /\ touched' = run.touched /\ UNCHANGED <<threads, heap>>

NextString ==
    \/ Call_aidl2legacy_string
    \/ Call_legacy2aidl_string
    \/ Return

SpecString == Init /\ [][NextString]_vars

\* ---------------------------------------------------------------------------
\* Specification of the port-config converters.

\* Wire use cases: a tag with a value its member can or cannot convert.
WireUseCases ==
    {unionSet("stream", v) : v \in {-1, AudioStreamType_MUSIC, AudioStreamType_CALL_ASSISTANT, AudioStreamType_CALL_ASSISTANT + 1, AudioSourceType_HOTWORD}}
    \cup {unionSet("source", v) : v \in {-1, AudioSourceType_MIC, AudioStreamType_CALL_ASSISTANT, AudioSourceType_HOTWORD}}

LegacyUseCases == {LegacyUseCase(w) : w \in {-1, AUDIO_SOURCE_MIC, AUDIO_STREAM_MUSIC, AUDIO_STREAM_CALL_ASSISTANT, AUDIO_STREAM_CALL_ASSISTANT + 1, AUDIO_SOURCE_HOTWORD}}

JunkUseCases == {LegacyUseCase(j) : j \in JunkWords}

UseCaseRoles == (AudioPortRole_NONE - 1) .. (AudioPortRole_SINK + 1)

Call_aidl2legacy_AudioPortConfigMixExtUseCase ==
    /\ op = Idle
    /\ \E role \in UseCaseRoles, junk \in JunkUseCases :
          \/ \E aidl \in WireUseCases :
                Call1("aidl2legacy_AudioPortConfigMixExtUseCase", [aidl |-> aidl, role |-> role, junk |-> junk],
                      aidl2legacy_AudioPortConfigMixExtUseCase(aidl, role, junk))
          \/ LET aidl == unionSet("nothing", FALSE)
             IN  Call1("aidl2legacy_AudioPortConfigMixExtUseCase", [aidl |-> aidl, role |-> role, junk |-> junk],
                       aidl2legacy_AudioPortConfigMixExtUseCase(aidl, role, junk))

Call_legacy2aidl_AudioPortConfigMixExtUseCase ==
    /\ op = Idle
    /\ \E legacy \in LegacyUseCases, role \in UseCaseRoles :
          Call1("legacy2aidl_AudioPortConfigMixExtUseCase", [legacy |-> legacy, role |-> role],
                legacy2aidl_AudioPortConfigMixExtUseCase(legacy, role))

PortRoles == AudioPortRole_NONE .. (AudioPortRole_SINK + 1)

PortTypes == AudioPortType_NONE .. (AudioPortType_SESSION + 1)

\* Config masks: nothing, each field alone, all fields, all but gain, and a
\* bit that names no field.
ConfigMasks == {0, 1, 2, 4, 8, 16, 23, 31, 32}

SampleRates == {48000, -1}

\* A gain config of one joint value, and one whose value count is wrong.
WirePortGains ==
    {[index |-> 7, mode |-> 1, channelMask |-> 3, values |-> vs, rampDurationMs |-> 10] : vs \in {<<101>>, <<>>}}

WirePortFlags == {unionSet("input", 1), unionSet("output", 1)}

\* The wire ext unions by number: nothing, a session, a device with a short
\* address, a device with an address of the buffer's size, a mix with a stream
\* type, a mix with a source type.
WirePortExt(k) ==
    CASE k = 1 -> unionSet("nothing", FALSE)
      [] k = 2 -> unionSet("session", [session |-> 9])
      [] k = 3 -> unionSet("device", [hwModule |-> 9, type |-> 4, address |-> <<65, 66>>])
      [] k = 4 -> unionSet("device", [hwModule |-> 9, type |-> 4, address |-> [i \in 1 .. AUDIO_DEVICE_MAX_ADDRESS_LEN |-> 65]])
      [] k = 5 -> unionSet("mix", [hwModule |-> 9, handle |-> 4, usecase |-> unionSet("stream", AudioStreamType_MUSIC)])
      [] k = 6 -> unionSet("mix", [hwModule |-> 9, handle |-> 4, usecase |-> unionSet("source", AudioSourceType_MIC)])

WirePortExtNumbers == 1 .. 6

\* The wire port configs less their ext.
WirePortConfigs ==
    [id : {5}, role : PortRoles, type : PortTypes, configMask : ConfigMasks, sampleRate : SampleRates,
     channelMask : {3}, format : {1}, gain : WirePortGains, flags : WirePortFlags]

WithExt(c, ext) == [id |-> c.id, role |-> c.role, type |-> c.type, configMask |-> c.configMask, sampleRate |-> c.sampleRate, channelMask |-> c.channelMask, format |-> c.format, gain |-> c.gain, flags |-> c.flags, ext |-> ext]

\* What an uninitialized audio_port_config may hold.
JunkPortConfig(j) ==
    [id |-> j, role |-> j, type |-> j, config_mask |-> j, sample_rate |-> j, channel_mask |-> j, format |-> j,
     gain |-> JunkGainConfig(j), flags |-> LegacyIoFlags(j),
     ext |-> LegacyPortExt(j, j, [i \in 0 .. (AUDIO_DEVICE_MAX_ADDRESS_LEN - 1) |-> ByteOfWord(j, i % 4)])]

JunkPortConfigs == {JunkPortConfig(j) : j \in JunkWords}

\* The address is one short terminated string, or letters filling the buffer.
LegacyPortExts ==
    {LegacyPortExt(9, 4, BufferOf(<<AUDIO_STREAM_MUSIC>>, AUDIO_DEVICE_MAX_ADDRESS_LEN, 0)), LegacyPortExt(9, 4, AddressBuffer(AUDIO_DEVICE_MAX_ADDRESS_LEN))}

\* A gain config of one joint value, and one whose mode names no gain mode.
LegacyPortGains ==
    {[index |-> 7, mode |-> m, channel_mask |-> 3, values |-> [i \in 0 .. (GainValuesCapacity - 1) |-> 100 + i], ramp_duration_ms |-> 10] : m \in {AUDIO_GAIN_MODE_JOINT, 8}}

\* The legacy flags union is one word, seen through either member.
LegacyPortFlags == {LegacyIoFlags(w) : w \in {1, AUDIO_OUTPUT_FLAG_INCALL_MUSIC}}

LegacyPortConfigs ==
    [id : {5}, role : PortRoles, type : PortTypes, config_mask : ConfigMasks, sample_rate : SampleRates,
     channel_mask : {3}, format : {1}, gain : LegacyPortGains, flags : LegacyPortFlags, ext : LegacyPortExts]

Call_aidl2legacy_AudioPortConfig_audio_port_config ==
    /\ op = Idle
    /\ \E c \in WirePortConfigs, k \in WirePortExtNumbers, junk \in JunkPortConfigs :
          LET aidl == WithExt(c, WirePortExt(k))
          IN  Call1("aidl2legacy_AudioPortConfig_audio_port_config", [aidl |-> aidl, junk |-> junk],
                    aidl2legacy_AudioPortConfig_audio_port_config(aidl, junk))

Call_legacy2aidl_audio_port_config_AudioPortConfig ==
    /\ op = Idle
    /\ \E legacy \in LegacyPortConfigs :
          Call1("legacy2aidl_audio_port_config_AudioPortConfig", [legacy |-> legacy],
                legacy2aidl_audio_port_config_AudioPortConfig(legacy))

\* Flag words: no flag, one flag, two flags, and bit 31, which names no flag.
IoFlagWords == {0, 1, 6, -2147483647 - 1}

Call_aidl2legacy_AudioIoFlags_audio_io_flags ==
    /\ op = Idle
    /\ \E tag \in {"input", "output"}, w \in IoFlagWords, role \in PortRoles, type \in PortTypes, j \in JunkWords :
          LET aidl == unionSet(tag, w)
          IN  Call1("aidl2legacy_AudioIoFlags_audio_io_flags", [aidl |-> aidl, role |-> role, type |-> type, junk |-> LegacyIoFlags(j)],
                    aidl2legacy_AudioIoFlags_audio_io_flags(aidl, role, type, LegacyIoFlags(j)))

Call_legacy2aidl_audio_io_flags_AudioIoFlags ==
    /\ op = Idle
    /\ \E w \in IoFlagWords \cup {AUDIO_OUTPUT_FLAG_INCALL_MUSIC}, role \in PortRoles, type \in PortTypes :
          Call1("legacy2aidl_audio_io_flags_AudioIoFlags", [legacy |-> LegacyIoFlags(w), role |-> role, type |-> type],
                legacy2aidl_audio_io_flags_AudioIoFlags(LegacyIoFlags(w), role, type))

Call_aidl2legacy_AudioPortConfigExt ==
    /\ op = Idle
    /\ \E k \in WirePortExtNumbers, type \in PortTypes, role \in PortRoles, junk \in JunkPortConfigs :
          Call1("aidl2legacy_AudioPortConfigExt", [aidl |-> WirePortExt(k), type |-> type, role |-> role, junk |-> junk.ext],
                aidl2legacy_AudioPortConfigExt(WirePortExt(k), type, role, junk.ext))

Call_legacy2aidl_AudioPortConfigExt ==
    /\ op = Idle
    /\ \E legacy \in LegacyPortExts, type \in PortTypes, role \in PortRoles :
          Call1("legacy2aidl_AudioPortConfigExt", [legacy |-> legacy, type |-> type, role |-> role],
                legacy2aidl_AudioPortConfigExt(legacy, type, role))

NextPort ==
    \/ Call_aidl2legacy_AudioPortConfigMixExtUseCase
    \/ Call_legacy2aidl_AudioPortConfigMixExtUseCase
    \/ Call_aidl2legacy_AudioPortConfig_audio_port_config
    \/ Call_legacy2aidl_audio_port_config_AudioPortConfig
    \/ Call_aidl2legacy_AudioIoFlags_audio_io_flags
    \/ Call_legacy2aidl_audio_io_flags_AudioIoFlags
    \/ Call_aidl2legacy_AudioPortConfigExt
    \/ Call_legacy2aidl_AudioPortConfigExt
    \/ Return

SpecPort == Init /\ [][NextPort]_vars

\* ---------------------------------------------------------------------------
\* Specification of the patch and I/O descriptor converters.

MaxPorts == 2

\* A wire port config that converts, and one that does not (its sample rate
\* is negative); the id tells the position in the patch.
GoodWirePort(id) ==
    [id |-> id, role |-> AudioPortRole_SINK, type |-> AudioPortType_DEVICE, configMask |-> enumToMask_index(AudioPortConfigType_SAMPLE_RATE),
     sampleRate |-> 48000, channelMask |-> 3, format |-> 1, gain |-> DefaultAudioGainConfig, flags |-> unionSet("output", 1),
     ext |-> unionSet("device", [hwModule |-> 9, type |-> 4, address |-> <<65, 66>>])]

BadWirePort(id) == [GoodWirePort(id) EXCEPT !.sampleRate = -1]

\* A mix port whose role is one past the enum.
StrayWirePort(id) == [GoodWirePort(id) EXCEPT !.role = AudioPortRole_SINK + 1, !.type = AudioPortType_MIX, !.ext = WirePortExt(5)]

\* The vectors of n ports of which those at the positions in `bad` do not convert.
WirePorts(n, bad) == [i \in 1 .. n |-> IF i \in bad THEN BadWirePort(i) ELSE GoodWirePort(i)]

WirePortSeqs ==
    {WirePorts(n[1], n[2]) : n \in {<<k, b>> : k \in 0 .. MaxPorts, b \in SUBSET (1 .. MaxPorts)}}
    \cup {WirePorts(AUDIO_PATCH_PORTS_MAX, {}), WirePorts(AUDIO_PATCH_PORTS_MAX, {AUDIO_PATCH_PORTS_MAX}), WirePorts(AUDIO_PATCH_PORTS_MAX + 1, {})}
    \cup {<<StrayWirePort(1)>>}

\* What an uninitialized audio_patch may hold.
JunkPatch(j) ==
    [id |-> j, num_sinks |-> j, sinks |-> [i \in 0 .. (AUDIO_PATCH_PORTS_MAX - 1) |-> JunkPortConfig(j)],
     num_sources |-> j, sources |-> [i \in 0 .. (AUDIO_PATCH_PORTS_MAX - 1) |-> JunkPortConfig(j)]]

GoodLegacyPort(id) ==
    [id |-> id, role |-> AUDIO_PORT_ROLE_SINK, type |-> AUDIO_PORT_TYPE_DEVICE, config_mask |-> AUDIO_PORT_CONFIG_SAMPLE_RATE,
     sample_rate |-> 48000, channel_mask |-> 3, format |-> 1, gain |-> JunkGainConfig(0), flags |-> LegacyIoFlags(1),
     ext |-> LegacyPortExt(9, 4, BufferOf(<<65, 66>>, AUDIO_DEVICE_MAX_ADDRESS_LEN, 0))]

\* A sample rate above 2^31 - 1.
BadLegacyPort(id) == [GoodLegacyPort(id) EXCEPT !.sample_rate = -1]

\* A mix port whose role is one past the enum.
StrayLegacyPort(id) == [GoodLegacyPort(id) EXCEPT !.role = AUDIO_PORT_ROLE_SINK + 1, !.type = AUDIO_PORT_TYPE_MIX]

LegacyPorts(bad) == [i \in 0 .. (AUDIO_PATCH_PORTS_MAX - 1) |-> IF i \in bad THEN BadLegacyPort(i) ELSE GoodLegacyPort(i)]

LegacyPortArrays ==
    {LegacyPorts(b) : b \in SUBSET (0 .. (MaxPorts - 1)) \cup {{AUDIO_PATCH_PORTS_MAX - 1}}}
    \cup {[LegacyPorts({}) EXCEPT ![0] = StrayLegacyPort(0)]}

\* Port counts: small ones, the capacity, one more, and 2^32 - 1.
LegacyPortCounts == (0 .. MaxPorts) \cup {AUDIO_PATCH_PORTS_MAX, AUDIO_PATCH_PORTS_MAX + 1, -1}

Call_aidl2legacy_AudioPatch_audio_patch ==
    /\ op = Idle
    /\ \E sinks \in WirePortSeqs, sources \in WirePortSeqs, j \in JunkWords :
          \E aidl \in {[id |-> 3, sinks |-> sinks, sources |-> sources]} : \E run \in {aidl2legacy_AudioPatch_run(aidl, JunkPatch(j), JunkPortConfig(j))} :
              /\ op' = "aidl2legacy_AudioPatch_audio_patch"
              /\ arg' = [aidl |-> aidl, junk |-> JunkPatch(j), portJunk |-> JunkPortConfig(j)]
              /\ res' = run.r
              /\ touched' = run.touched /\ UNCHANGED <<threads, heap>>

Call_legacy2aidl_audio_patch_AudioPatch ==
    /\ op = Idle
    /\ \E num_sinks \in LegacyPortCounts, sinks \in LegacyPortArrays, num_sources \in LegacyPortCounts, sources \in LegacyPortArrays :
          \E legacy \in {[id |-> 3, num_sinks |-> num_sinks, sinks |-> sinks, num_sources |-> num_sources, sources |-> sources]} : \E run \in {legacy2aidl_audio_patch_run(legacy)} :
              /\ op' = "legacy2aidl_audio_patch_AudioPatch"
              /\ arg' = [legacy |-> legacy]
              /\ res' = run.r
              /\ touched' = run.touched /\ UNCHANGED <<threads, heap>>

NextPatch ==
    \/ Call_aidl2legacy_AudioPatch_audio_patch
    \/ Call_legacy2aidl_audio_patch_AudioPatch
    \/ Return

SpecPatch == Init /\ [][NextPatch]_vars

\* ---------------------------------------------------------------------------
\* Specification of the I/O descriptor, client, attributes, offload info and
\* config converters.

\* The widths of size_t the library is built with.
SizeWidths == {32, 64}

GoodWirePatch == [id |-> 3, sinks |-> WirePorts(1, {}), sources |-> WirePorts(1, {})]

\* A wire patch whose last sink or source does not convert.
BadWirePatches == {[id |-> 3, sinks |-> WirePorts(MaxPorts, {MaxPorts}), sources |-> WirePorts(1, {})], [id |-> 3, sinks |-> WirePorts(1, {}), sources |-> WirePorts(MaxPorts, {MaxPorts})], [id |-> 3, sinks |-> <<StrayWirePort(1)>>, sources |-> WirePorts(1, {})]}

\* 32-bit quantities of the wire: a usual one, -1, and those of IntWords.
IntWords == {0, 48000, 2147483647, -1, -2147483647 - 1}

\* 64-bit quantities of the wire: 960, 2^32 - 1, 2^32, 2^63 - 1, -1, -2^63.
WideWords == {Wide(0, 960), Wide(0, -1), Wide(1, 0), Wide(2147483647, -1), Wide(-1, -1), Wide(-2147483647 - 1, 0)}

GoodWireIoDescriptor ==
    [ioHandle |-> 13, patch |-> GoodWirePatch, samplingRate |-> 48000, format |-> 1, channelMask |-> 3,
     frameCount |-> Wide(0, 960), frameCountHAL |-> Wide(0, 960), latency |-> 20, portId |-> 7]

\* Descriptors of which up to two fields differ from the good one.
WireIoDescriptors ==
    {[GoodWireIoDescriptor EXCEPT !.patch = p, !.samplingRate = s] : p \in {GoodWirePatch} \cup BadWirePatches, s \in IntWords}
    \cup {[GoodWireIoDescriptor EXCEPT !.samplingRate = s, !.frameCount = f] : s \in {48000, -1}, f \in WideWords}
    \cup {[GoodWireIoDescriptor EXCEPT !.frameCount = f, !.frameCountHAL = h] : f \in WideWords, h \in WideWords}
    \cup {[GoodWireIoDescriptor EXCEPT !.frameCountHAL = h, !.latency = l] : h \in {Wide(0, 960), Wide(-1, -1)}, l \in IntWords}

GoodLegacyPatch == [id |-> 3, num_sinks |-> 1, sinks |-> LegacyPorts({}), num_sources |-> 1, sources |-> LegacyPorts({})]

BadLegacyPatches == {[GoodLegacyPatch EXCEPT !.sinks = LegacyPorts({0})], [GoodLegacyPatch EXCEPT !.sources = LegacyPorts({0})], [GoodLegacyPatch EXCEPT !.sinks = [LegacyPorts({}) EXCEPT ![0] = StrayLegacyPort(0)]]}

GoodLegacyIoDescriptor ==
    [mIoHandle |-> 13, mPatch |-> GoodLegacyPatch, mSamplingRate |-> 48000, mFormat |-> 1, mChannelMask |-> 3,
     mFrameCount |-> Wide(0, 960), mFrameCountHAL |-> Wide(0, 960), mLatency |-> 20, mPortId |-> 7]

\* The values a size_t of the given width takes among WideWords.
SizeWords(SizeBits) == {w \in WideWords : SizeBits = 64 \/ w.hi = 0}

LegacyIoDescriptors(SizeBits) ==
    {[GoodLegacyIoDescriptor EXCEPT !.mPatch = p, !.mSamplingRate = s] : p \in {GoodLegacyPatch} \cup BadLegacyPatches, s \in IntWords}
    \cup {[GoodLegacyIoDescriptor EXCEPT !.mSamplingRate = s, !.mFrameCount = f] : s \in {48000, -1}, f \in SizeWords(SizeBits)}
    \cup {[GoodLegacyIoDescriptor EXCEPT !.mFrameCount = f, !.mFrameCountHAL = h] : f \in SizeWords(SizeBits), h \in SizeWords(SizeBits)}
    \cup {[GoodLegacyIoDescriptor EXCEPT !.mFrameCountHAL = h, !.mLatency = l] : h \in SizeWords(SizeBits), l \in IntWords}

Call_aidl2legacy_AudioIoDescriptor_AudioIoDescriptor ==
    /\ op = Idle
    /\ \E aidl \in WireIoDescriptors, SizeBits \in SizeWidths, j \in JunkWords :
          LET run == aidl2legacy_AudioIoDescriptor_AudioIoDescriptor(aidl, SizeBits, JunkPatch(j), JunkPortConfig(j))
          IN  Call1("aidl2legacy_AudioIoDescriptor_AudioIoDescriptor", [aidl |-> aidl, SizeBits |-> SizeBits, junk |-> JunkPatch(j), portJunk |-> JunkPortConfig(j)], run)

Call_legacy2aidl_AudioIoDescriptor_AudioIoDescriptor ==
    /\ op = Idle
    /\ \E SizeBits \in SizeWidths :
          \E legacy \in LegacyIoDescriptors(SizeBits) :
             Call1("legacy2aidl_AudioIoDescriptor_AudioIoDescriptor", [legacy |-> legacy, SizeBits |-> SizeBits], legacy2aidl_AudioIoDescriptor_AudioIoDescriptor(legacy, SizeBits))

\* Package names: ASCII strings, a NUL among their characters included.
PackageNames == UNION {BytesOfLen(n) : n \in 0 .. MaxBuf}

Call_aidl2legacy_AudioClient ==
    /\ op = Idle
    /\ \E clientUid \in {10001, -1}, clientPid \in IntWords, clientTid \in {1234, -1}, packageName \in PackageNames :
          LET aidl == [clientUid |-> clientUid, clientPid |-> clientPid, clientTid |-> clientTid, packageName |-> packageName]
          IN  Call1("aidl2legacy_AudioClient", [aidl |-> aidl], aidl2legacy_AudioClient(aidl))

Call_legacy2aidl_AudioClient ==
    /\ op = Idle
    /\ \E clientUid \in {10001, -1}, clientPid \in IntWords, clientTid \in {1234, -1}, packageName \in PackageNames :
          LET legacy == [clientUid |-> clientUid, clientPid |-> clientPid, clientTid |-> clientTid, packageName |-> packageName]
          IN  Call1("legacy2aidl_AudioClient", [legacy |-> legacy], legacy2aidl_AudioClient(legacy))

\* Enum values the callers try for the fields of attributes and offload info:
\* the first values of each enum, one past the largest enum of the four, a
\* vendor usage, and -1.
EnumWords == (-1 .. 3) \cup {18, 1000, 1999}

\* Tags: short ones, and runs of a letter around the capacity of the buffer.
Run(n, b) == [i \in 1 .. n |-> b]

WireTags == {<<>>, <<65, 66>>, <<65, 0, 66>>, Run(AUDIO_ATTRIBUTES_TAGS_MAX_SIZE - 1, 65), Run(AUDIO_ATTRIBUTES_TAGS_MAX_SIZE, 65)}

\* What an uninitialized audio_attributes_t may hold.
JunkAttributes(j) == [content_type |-> j, usage |-> j, source |-> j, flags |-> j, tags |-> [i \in 0 .. (AUDIO_ATTRIBUTES_TAGS_MAX_SIZE - 1) |-> ByteOfWord(j, i % 4)]]

AttributeFlagWords == {0, 1, 3, 16384, -1}

GoodWireAttributes == [contentType |-> AudioContentType_MUSIC, usage |-> AudioUsage_MEDIA, source |-> AudioSourceType_MIC, flags |-> 1, tags |-> <<65, 66>>]

\* Attributes of which up to two fields differ from the good ones.
WireAttributes ==
    {[GoodWireAttributes EXCEPT !.contentType = c, !.usage = u] : c \in EnumWords, u \in EnumWords}
    \cup {[GoodWireAttributes EXCEPT !.usage = u, !.source = s] : u \in {AudioUsage_MEDIA, 999}, s \in EnumWords}
    \cup {[GoodWireAttributes EXCEPT !.source = s, !.flags = f] : s \in {AudioSourceType_MIC, -2}, f \in AttributeFlagWords}
    \cup {[GoodWireAttributes EXCEPT !.flags = f, !.tags = t] : f \in {1, 16384}, t \in WireTags}

Call_aidl2legacy_AudioAttributesInternal_audio_attributes_t ==
    /\ op = Idle
    /\ \E aidl \in WireAttributes, j \in JunkWords :
          Call1("aidl2legacy_AudioAttributesInternal_audio_attributes_t", [aidl |-> aidl, junk |-> JunkAttributes(j)], aidl2legacy_AudioAttributesInternal_audio_attributes_t(aidl, JunkAttributes(j)))

LegacyTags == {BufferOf(t, AUDIO_ATTRIBUTES_TAGS_MAX_SIZE, f) : t \in {<<>>, <<65, 66>>, <<65, 0, 66>>}, f \in {0, 90}} \cup {BufferOf(Run(AUDIO_ATTRIBUTES_TAGS_MAX_SIZE - 1, 65), AUDIO_ATTRIBUTES_TAGS_MAX_SIZE, 0), BufferOf(<<>>, AUDIO_ATTRIBUTES_TAGS_MAX_SIZE, 65)}

GoodLegacyAttributes == [content_type |-> AUDIO_CONTENT_TYPE_MUSIC, usage |-> AUDIO_USAGE_MEDIA, source |-> AUDIO_SOURCE_MIC, flags |-> 1, tags |-> BufferOf(<<65, 66>>, AUDIO_ATTRIBUTES_TAGS_MAX_SIZE, 0)]

LegacyAttributes ==
    {[GoodLegacyAttributes EXCEPT !.content_type = c, !.usage = u] : c \in EnumWords, u \in EnumWords}
    \cup {[GoodLegacyAttributes EXCEPT !.usage = u, !.source = s] : u \in {AUDIO_USAGE_MEDIA, 999}, s \in EnumWords}
    \cup {[GoodLegacyAttributes EXCEPT !.source = s, !.flags = f] : s \in {AUDIO_SOURCE_MIC, -2}, f \in AttributeFlagWords}
    \cup {[GoodLegacyAttributes EXCEPT !.flags = f, !.tags = t] : f \in {1, 16384}, t \in LegacyTags}

Call_legacy2aidl_audio_attributes_t_AudioAttributesInternal ==
    /\ op = Idle
    /\ \E legacy \in LegacyAttributes :
          Call1("legacy2aidl_audio_attributes_t_AudioAttributesInternal", [legacy |-> legacy], legacy2aidl_audio_attributes_t_AudioAttributesInternal(legacy))

WireConfigBases == {[sampleRate |-> s, channelMask |-> c, format |-> f] : s \in IntWords, c \in {3, -1}, f \in {1, -1}}

LegacyConfigBases == {[sample_rate |-> s, channel_mask |-> c, format |-> f] : s \in IntWords, c \in {3, -1}, f \in {1, -1}}

Call_aidl2legacy_AudioConfigBase_audio_config_base_t ==
    /\ op = Idle
    /\ \E aidl \in WireConfigBases :
          Call1("aidl2legacy_AudioConfigBase_audio_config_base_t", [aidl |-> aidl], aidl2legacy_AudioConfigBase_audio_config_base_t(aidl))

Call_legacy2aidl_audio_config_base_t_AudioConfigBase ==
    /\ op = Idle
    /\ \E legacy \in LegacyConfigBases :
          Call1("legacy2aidl_audio_config_base_t_AudioConfigBase", [legacy |-> legacy], legacy2aidl_audio_config_base_t_AudioConfigBase(legacy))

GoodWireOffloadInfo ==
    [version |-> AUDIO_OFFLOAD_INFO_VERSION_0_2, config |-> [sampleRate |-> 44100, channelMask |-> 3, format |-> 1], streamType |-> AudioStreamType_MUSIC,
     bitRate |-> 128000, durationUs |-> Wide(0, 1000), hasVideo |-> FALSE, isStreaming |-> TRUE, bitWidth |-> 16, offloadBufferSize |-> 0,
     usage |-> AudioUsage_MEDIA, encapsulationMode |-> AudioEncapsulationMode_HANDLE, contentId |-> 5, syncId |-> -1]

OffloadVersions == {0, 1, 2, 3, UINT16_MAX, UINT16_MAX + 1, -1}

\* Offload infos of which up to two fields differ from the good one.
WireOffloadInfos ==
    {[GoodWireOffloadInfo EXCEPT !.version = v, !.config.sampleRate = s] : v \in OffloadVersions, s \in IntWords}
    \cup {[GoodWireOffloadInfo EXCEPT !.config.sampleRate = s, !.streamType = t] : s \in {44100, -1}, t \in EnumWords}
    \cup {[GoodWireOffloadInfo EXCEPT !.streamType = t, !.bitRate = b] : t \in {AudioStreamType_MUSIC, -2}, b \in IntWords}
    \cup {[GoodWireOffloadInfo EXCEPT !.bitRate = b, !.durationUs = d] : b \in {128000, -1}, d \in WideWords}
    \cup {[GoodWireOffloadInfo EXCEPT !.bitWidth = w, !.offloadBufferSize = o] : w \in IntWords, o \in IntWords}
    \cup {[GoodWireOffloadInfo EXCEPT !.offloadBufferSize = o, !.usage = u] : o \in {0, -1}, u \in EnumWords}
    \cup {[GoodWireOffloadInfo EXCEPT !.usage = u, !.encapsulationMode = e] : u \in {AudioUsage_MEDIA, 999}, e \in EnumWords}
    \cup {[GoodWireOffloadInfo EXCEPT !.encapsulationMode = e, !.contentId = c, !.syncId = c] : e \in {0, 7}, c \in IntWords}

Call_aidl2legacy_AudioOffloadInfo_audio_offload_info_t ==
    /\ op = Idle
    /\ \E aidl \in WireOffloadInfos :
          Call1("aidl2legacy_AudioOffloadInfo_audio_offload_info_t", [aidl |-> aidl], aidl2legacy_AudioOffloadInfo_audio_offload_info_t(aidl))

GoodLegacyOffloadInfo ==
    [version |-> AUDIO_OFFLOAD_INFO_VERSION_0_2, size |-> AUDIO_OFFLOAD_INFO_SIZE, sample_rate |-> 44100, channel_mask |-> 3, format |-> 1, stream_type |-> AUDIO_STREAM_MUSIC,
     bit_rate |-> 128000, duration_us |-> Wide(0, 1000), has_video |-> FALSE, is_streaming |-> TRUE, bit_width |-> 16, offload_buffer_size |-> 0,
     usage |-> AUDIO_USAGE_MEDIA, encapsulation_mode |-> AUDIO_ENCAPSULATION_MODE_HANDLE, content_id |-> 5, sync_id |-> -1]

\* Sizes a caller may have stored: around the sizes of the two layouts.
OffloadSizes == {0, AUDIO_OFFLOAD_INFO_SIZE_0_1 - 1, AUDIO_OFFLOAD_INFO_SIZE_0_1, AUDIO_OFFLOAD_INFO_SIZE_0_2 - 1, AUDIO_OFFLOAD_INFO_SIZE_0_2, AUDIO_OFFLOAD_INFO_SIZE, UINT16_MAX}

LegacyOffloadInfos ==
    {[GoodLegacyOffloadInfo EXCEPT !.version = v, !.size = z, !.encapsulation_mode = e] : v \in 0 .. 3 \cup {UINT16_MAX}, z \in OffloadSizes, e \in {AUDIO_ENCAPSULATION_MODE_HANDLE, 7}}
    \cup {[GoodLegacyOffloadInfo EXCEPT !.size = z, !.sample_rate = s] : z \in OffloadSizes, s \in IntWords}
    \cup {[GoodLegacyOffloadInfo EXCEPT !.sample_rate = s, !.stream_type = t] : s \in {44100, -1}, t \in EnumWords}
    \cup {[GoodLegacyOffloadInfo EXCEPT !.stream_type = t, !.bit_rate = b] : t \in {AUDIO_STREAM_MUSIC, -2}, b \in IntWords}
    \cup {[GoodLegacyOffloadInfo EXCEPT !.bit_rate = b, !.duration_us = d] : b \in {128000, -1}, d \in WideWords}
    \cup {[GoodLegacyOffloadInfo EXCEPT !.bit_width = w, !.offload_buffer_size = o] : w \in IntWords, o \in IntWords}
    \cup {[GoodLegacyOffloadInfo EXCEPT !.offload_buffer_size = o, !.usage = u, !.version = v] : o \in {0, -1}, u \in EnumWords, v \in {1, 2}}
    \cup {[GoodLegacyOffloadInfo EXCEPT !.usage = u, !.encapsulation_mode = e, !.content_id = c, !.sync_id = c] : u \in {AUDIO_USAGE_MEDIA, 999}, e \in EnumWords, c \in {5, -1}}

Call_legacy2aidl_audio_offload_info_t_AudioOffloadInfo ==
    /\ op = Idle
    /\ \E legacy \in LegacyOffloadInfos :
          Call1("legacy2aidl_audio_offload_info_t_AudioOffloadInfo", [legacy |-> legacy], legacy2aidl_audio_offload_info_t_AudioOffloadInfo(legacy))

WireAudioConfigs ==
    {[sampleRate |-> s, channelMask |-> 3, format |-> 1, offloadInfo |-> o, frameCount |-> f] :
        s \in {48000, -1}, o \in {GoodWireOffloadInfo, [GoodWireOffloadInfo EXCEPT !.version = -1], [GoodWireOffloadInfo EXCEPT !.usage = 999]}, f \in WideWords}

LegacyAudioConfigs ==
    {[sample_rate |-> s, channel_mask |-> 3, format |-> 1, offload_info |-> o, frame_count |-> f] :
        s \in {48000, -1}, o \in {GoodLegacyOffloadInfo, [GoodLegacyOffloadInfo EXCEPT !.size = 0], [GoodLegacyOffloadInfo EXCEPT !.usage = 999]}, f \in IntWords}

Call_aidl2legacy_AudioConfig_audio_config_t ==
    /\ op = Idle
    /\ \E aidl \in WireAudioConfigs :
          Call1("aidl2legacy_AudioConfig_audio_config_t", [aidl |-> aidl], aidl2legacy_AudioConfig_audio_config_t(aidl))

Call_legacy2aidl_audio_config_t_AudioConfig ==
    /\ op = Idle
    /\ \E legacy \in LegacyAudioConfigs :
          Call1("legacy2aidl_audio_config_t_AudioConfig", [legacy |-> legacy], legacy2aidl_audio_config_t_AudioConfig(legacy))

NextConfig ==
    \/ Call_aidl2legacy_AudioIoDescriptor_AudioIoDescriptor
    \/ Call_legacy2aidl_AudioIoDescriptor_AudioIoDescriptor
    \/ Call_aidl2legacy_AudioClient
    \/ Call_legacy2aidl_AudioClient
    \/ Call_aidl2legacy_AudioAttributesInternal_audio_attributes_t
    \/ Call_legacy2aidl_audio_attributes_t_AudioAttributesInternal
    \/ Call_aidl2legacy_AudioConfigBase_audio_config_base_t
    \/ Call_legacy2aidl_audio_config_base_t_AudioConfigBase
    \/ Call_aidl2legacy_AudioOffloadInfo_audio_offload_info_t
    \/ Call_legacy2aidl_audio_offload_info_t_AudioOffloadInfo
    \/ Call_aidl2legacy_AudioConfig_audio_config_t
    \/ Call_legacy2aidl_audio_config_t_AudioConfig
    \/ Return

SpecConfig == Init /\ [][NextConfig]_vars

\* Every caller of an aggregate converter.
NextAggregate ==
    \/ Call_aidl2legacy_AudioGainConfig_audio_gain_config
    \/ Call_legacy2aidl_audio_gain_config_AudioGainConfig
    \/ Call_aidl2legacy_AudioPortConfigMixExtUseCase
    \/ Call_legacy2aidl_AudioPortConfigMixExtUseCase
    \/ Call_aidl2legacy_AudioPortConfig_audio_port_config
    \/ Call_legacy2aidl_audio_port_config_AudioPortConfig
    \/ Call_aidl2legacy_AudioIoFlags_audio_io_flags
    \/ Call_legacy2aidl_audio_io_flags_AudioIoFlags
    \/ Call_aidl2legacy_AudioPortConfigExt
    \/ Call_legacy2aidl_AudioPortConfigExt
    \/ Call_aidl2legacy_AudioPatch_audio_patch
    \/ Call_legacy2aidl_audio_patch_AudioPatch
    \/ Call_aidl2legacy_AudioIoDescriptor_AudioIoDescriptor
    \/ Call_legacy2aidl_AudioIoDescriptor_AudioIoDescriptor
    \/ Call_aidl2legacy_AudioClient
    \/ Call_legacy2aidl_AudioClient
    \/ Call_aidl2legacy_AudioAttributesInternal_audio_attributes_t
    \/ Call_legacy2aidl_audio_attributes_t_AudioAttributesInternal
    \/ Call_aidl2legacy_AudioConfigBase_audio_config_base_t
    \/ Call_legacy2aidl_audio_config_base_t_AudioConfigBase
    \/ Call_aidl2legacy_AudioOffloadInfo_audio_offload_info_t
    \/ Call_legacy2aidl_audio_offload_info_t_AudioOffloadInfo
    \/ Call_aidl2legacy_AudioConfig_audio_config_t
    \/ Call_legacy2aidl_audio_config_t_AudioConfig
    \/ Return

SpecAggregate == Init /\ [][NextAggregate]_vars

\* ---------------------------------------------------------------------------
\* Specification of the switch-based enum converters.

\* The largest of the small values tried.
MaxEnumInput == 20

\* Every converter is tried on the small values from -2 on, on every
\* single-bit word, on the values around the vendor usages and the
\* non-contiguous source types, and on the largest word.
EnumInputs == (-2 .. MaxEnumInput) \cup {OneShl(i) : i \in BitIndexes} \cup (999 .. 1004) \cup (1996 .. 2000) \cup {2147483647}

Call_aidl2legacy_AudioPortConfigType ==
    /\ op = Idle
    /\ \E value \in EnumInputs : Call1("aidl2legacy_AudioPortConfigType", [value |-> value], aidl2legacy_AudioPortConfigType(value))

Call_legacy2aidl_AudioPortConfigType ==
    /\ op = Idle
    /\ \E value \in EnumInputs : Call1("legacy2aidl_AudioPortConfigType", [value |-> value], legacy2aidl_AudioPortConfigType(value))

Call_aidl2legacy_AudioIoConfigEvent_audio_io_config_event ==
    /\ op = Idle
    /\ \E value \in EnumInputs : Call1("aidl2legacy_AudioIoConfigEvent_audio_io_config_event", [value |-> value], aidl2legacy_AudioIoConfigEvent_audio_io_config_event(value))

Call_legacy2aidl_audio_io_config_event_AudioIoConfigEvent ==
    /\ op = Idle
    /\ \E value \in EnumInputs : Call1("legacy2aidl_audio_io_config_event_AudioIoConfigEvent", [value |-> value], legacy2aidl_audio_io_config_event_AudioIoConfigEvent(value))

Call_aidl2legacy_AudioPortRole_audio_port_role_t ==
    /\ op = Idle
    /\ \E value \in EnumInputs : Call1("aidl2legacy_AudioPortRole_audio_port_role_t", [value |-> value], aidl2legacy_AudioPortRole_audio_port_role_t(value))

Call_legacy2aidl_audio_port_role_t_AudioPortRole ==
    /\ op = Idle
    /\ \E value \in EnumInputs : Call1("legacy2aidl_audio_port_role_t_AudioPortRole", [value |-> value], legacy2aidl_audio_port_role_t_AudioPortRole(value))

Call_aidl2legacy_AudioPortType_audio_port_type_t ==
    /\ op = Idle
    /\ \E value \in EnumInputs : Call1("aidl2legacy_AudioPortType_audio_port_type_t", [value |-> value], aidl2legacy_AudioPortType_audio_port_type_t(value))

Call_legacy2aidl_audio_port_type_t_AudioPortType ==
    /\ op = Idle
    /\ \E value \in EnumInputs : Call1("legacy2aidl_audio_port_type_t_AudioPortType", [value |-> value], legacy2aidl_audio_port_type_t_AudioPortType(value))

Call_aidl2legacy_AudioGainMode_int ==
    /\ op = Idle
    /\ \E value \in EnumInputs : Call1("aidl2legacy_AudioGainMode_int", [value |-> value], aidl2legacy_AudioGainMode_int(value))

Call_legacy2aidl_int_AudioGainMode ==
    /\ op = Idle
    /\ \E value \in EnumInputs : Call1("legacy2aidl_int_AudioGainMode", [value |-> value], legacy2aidl_int_AudioGainMode(value))

Call_aidl2legacy_AudioInputFlags_audio_input_flags_t ==
    /\ op = Idle
    /\ \E value \in EnumInputs : Call1("aidl2legacy_AudioInputFlags_audio_input_flags_t", [value |-> value], aidl2legacy_AudioInputFlags_audio_input_flags_t(value))

Call_legacy2aidl_audio_input_flags_t_AudioInputFlags ==
    /\ op = Idle
    /\ \E value \in EnumInputs : Call1("legacy2aidl_audio_input_flags_t_AudioInputFlags", [value |-> value], legacy2aidl_audio_input_flags_t_AudioInputFlags(value))

Call_aidl2legacy_AudioOutputFlags_audio_output_flags_t ==
    /\ op = Idle
    /\ \E value \in EnumInputs : Call1("aidl2legacy_AudioOutputFlags_audio_output_flags_t", [value |-> value], aidl2legacy_AudioOutputFlags_audio_output_flags_t(value))

Call_legacy2aidl_audio_output_flags_t_AudioOutputFlags ==
    /\ op = Idle
    /\ \E value \in EnumInputs : Call1("legacy2aidl_audio_output_flags_t_AudioOutputFlags", [value |-> value], legacy2aidl_audio_output_flags_t_AudioOutputFlags(value))

Call_aidl2legacy_AudioStreamType_audio_stream_type_t ==
    /\ op = Idle
    /\ \E value \in EnumInputs : Call1("aidl2legacy_AudioStreamType_audio_stream_type_t", [value |-> value], aidl2legacy_AudioStreamType_audio_stream_type_t(value))

Call_legacy2aidl_audio_stream_type_t_AudioStreamType ==
    /\ op = Idle
    /\ \E value \in EnumInputs : Call1("legacy2aidl_audio_stream_type_t_AudioStreamType", [value |-> value], legacy2aidl_audio_stream_type_t_AudioStreamType(value))

Call_aidl2legacy_AudioSourceType_audio_source_t ==
    /\ op = Idle
    /\ \E value \in EnumInputs : Call1("aidl2legacy_AudioSourceType_audio_source_t", [value |-> value], aidl2legacy_AudioSourceType_audio_source_t(value))

Call_legacy2aidl_audio_source_t_AudioSourceType ==
    /\ op = Idle
    /\ \E value \in EnumInputs : Call1("legacy2aidl_audio_source_t_AudioSourceType", [value |-> value], legacy2aidl_audio_source_t_AudioSourceType(value))

Call_aidl2legacy_AudioContentType_audio_content_type_t ==
    /\ op = Idle
    /\ \E value \in EnumInputs : Call1("aidl2legacy_AudioContentType_audio_content_type_t", [value |-> value], aidl2legacy_AudioContentType_audio_content_type_t(value))

Call_legacy2aidl_audio_content_type_t_AudioContentType ==
    /\ op = Idle
    /\ \E value \in EnumInputs : Call1("legacy2aidl_audio_content_type_t_AudioContentType", [value |-> value], legacy2aidl_audio_content_type_t_AudioContentType(value))

Call_aidl2legacy_AudioUsage_audio_usage_t ==
    /\ op = Idle
    /\ \E value \in EnumInputs : Call1("aidl2legacy_AudioUsage_audio_usage_t", [value |-> value], aidl2legacy_AudioUsage_audio_usage_t(value))

Call_legacy2aidl_audio_usage_t_AudioUsage ==
    /\ op = Idle
    /\ \E value \in EnumInputs : Call1("legacy2aidl_audio_usage_t_AudioUsage", [value |-> value], legacy2aidl_audio_usage_t_AudioUsage(value))

Call_aidl2legacy_AudioFlag_audio_flags_mask_t ==
    /\ op = Idle
    /\ \E value \in EnumInputs : Call1("aidl2legacy_AudioFlag_audio_flags_mask_t", [value |-> value], aidl2legacy_AudioFlag_audio_flags_mask_t(value))

Call_legacy2aidl_audio_flags_mask_t_AudioFlag ==
    /\ op = Idle
    /\ \E value \in EnumInputs : Call1("legacy2aidl_audio_flags_mask_t_AudioFlag", [value |-> value], legacy2aidl_audio_flags_mask_t_AudioFlag(value))

Call_aidl2legacy_audio_encapsulation_mode_t_AudioEncapsulationMode ==
    /\ op = Idle
    /\ \E value \in EnumInputs : Call1("aidl2legacy_audio_encapsulation_mode_t_AudioEncapsulationMode", [value |-> value], aidl2legacy_audio_encapsulation_mode_t_AudioEncapsulationMode(value))

Call_legacy2aidl_AudioEncapsulationMode_audio_encapsulation_mode_t ==
    /\ op = Idle
    /\ \E value \in EnumInputs : Call1("legacy2aidl_AudioEncapsulationMode_audio_encapsulation_mode_t", [value |-> value], legacy2aidl_AudioEncapsulationMode_audio_encapsulation_mode_t(value))

NextEnum ==
    \/ Call_aidl2legacy_AudioPortConfigType
    \/ Call_legacy2aidl_AudioPortConfigType
    \/ Call_aidl2legacy_AudioIoConfigEvent_audio_io_config_event
    \/ Call_legacy2aidl_audio_io_config_event_AudioIoConfigEvent
    \/ Call_aidl2legacy_AudioPortRole_audio_port_role_t
    \/ Call_legacy2aidl_audio_port_role_t_AudioPortRole
    \/ Call_aidl2legacy_AudioPortType_audio_port_type_t
    \/ Call_legacy2aidl_audio_port_type_t_AudioPortType
    \/ Call_aidl2legacy_AudioGainMode_int
    \/ Call_legacy2aidl_int_AudioGainMode
    \/ Call_aidl2legacy_AudioInputFlags_audio_input_flags_t
    \/ Call_legacy2aidl_audio_input_flags_t_AudioInputFlags
    \/ Call_aidl2legacy_AudioOutputFlags_audio_output_flags_t
    \/ Call_legacy2aidl_audio_output_flags_t_AudioOutputFlags
    \/ Call_aidl2legacy_AudioStreamType_audio_stream_type_t
    \/ Call_legacy2aidl_audio_stream_type_t_AudioStreamType
    \/ Call_aidl2legacy_AudioSourceType_audio_source_t
    \/ Call_legacy2aidl_audio_source_t_AudioSourceType
    \/ Call_aidl2legacy_AudioContentType_audio_content_type_t
    \/ Call_legacy2aidl_audio_content_type_t_AudioContentType
    \/ Call_aidl2legacy_AudioUsage_audio_usage_t
    \/ Call_legacy2aidl_audio_usage_t_AudioUsage
    \/ Call_aidl2legacy_AudioFlag_audio_flags_mask_t
    \/ Call_legacy2aidl_audio_flags_mask_t_AudioFlag
    \/ Call_aidl2legacy_audio_encapsulation_mode_t_AudioEncapsulationMode
    \/ Call_legacy2aidl_AudioEncapsulationMode_audio_encapsulation_mode_t
    \/ Return

SpecEnum == Init /\ [][NextEnum]_vars
\* ---------------------------------------------------------------------------
\* Specification of the opaque-handle converters.

\* The words tried: 0, 1, -1, the least and the largest int32, a uid, a
\* negative word, and every single-bit word.
HandleWords == {0, 1, -1, 2147483647, INT32_MIN, 10001, -77} \cup {OneShl(i) : i \in BitIndexes}

Call_aidl2legacy_int32_t_audio_module_handle_t ==
    /\ op = Idle
    /\ \E value \in HandleWords : Call1("aidl2legacy_int32_t_audio_module_handle_t", [value |-> value], aidl2legacy_int32_t_audio_module_handle_t(value))

Call_legacy2aidl_audio_module_handle_t_int32_t ==
    /\ op = Idle
    /\ \E value \in HandleWords : Call1("legacy2aidl_audio_module_handle_t_int32_t", [value |-> value], legacy2aidl_audio_module_handle_t_int32_t(value))

Call_aidl2legacy_int32_t_audio_io_handle_t ==
    /\ op = Idle
    /\ \E value \in HandleWords : Call1("aidl2legacy_int32_t_audio_io_handle_t", [value |-> value], aidl2legacy_int32_t_audio_io_handle_t(value))

Call_legacy2aidl_audio_io_handle_t_int32_t ==
    /\ op = Idle
    /\ \E value \in HandleWords : Call1("legacy2aidl_audio_io_handle_t_int32_t", [value |-> value], legacy2aidl_audio_io_handle_t_int32_t(value))

Call_aidl2legacy_int32_t_audio_port_handle_t ==
    /\ op = Idle
    /\ \E value \in HandleWords : Call1("aidl2legacy_int32_t_audio_port_handle_t", [value |-> value], aidl2legacy_int32_t_audio_port_handle_t(value))

Call_legacy2aidl_audio_port_handle_t_int32_t ==
    /\ op = Idle
    /\ \E value \in HandleWords : Call1("legacy2aidl_audio_port_handle_t_int32_t", [value |-> value], legacy2aidl_audio_port_handle_t_int32_t(value))

Call_aidl2legacy_int32_t_audio_patch_handle_t ==
    /\ op = Idle
    /\ \E value \in HandleWords : Call1("aidl2legacy_int32_t_audio_patch_handle_t", [value |-> value], aidl2legacy_int32_t_audio_patch_handle_t(value))

Call_legacy2aidl_audio_patch_handle_t_int32_t ==
    /\ op = Idle
    /\ \E value \in HandleWords : Call1("legacy2aidl_audio_patch_handle_t_int32_t", [value |-> value], legacy2aidl_audio_patch_handle_t_int32_t(value))

Call_aidl2legacy_int32_t_audio_unique_id_t ==
    /\ op = Idle
    /\ \E value \in HandleWords : Call1("aidl2legacy_int32_t_audio_unique_id_t", [value |-> value], aidl2legacy_int32_t_audio_unique_id_t(value))

Call_legacy2aidl_audio_unique_id_t_int32_t ==
    /\ op = Idle
    /\ \E value \in HandleWords : Call1("legacy2aidl_audio_unique_id_t_int32_t", [value |-> value], legacy2aidl_audio_unique_id_t_int32_t(value))

Call_aidl2legacy_int32_t_audio_session_t ==
    /\ op = Idle
    /\ \E value \in HandleWords : Call1("aidl2legacy_int32_t_audio_session_t", [value |-> value], aidl2legacy_int32_t_audio_session_t(value))

Call_legacy2aidl_audio_session_t_int32_t ==
    /\ op = Idle
    /\ \E value \in HandleWords : Call1("legacy2aidl_audio_session_t_int32_t", [value |-> value], legacy2aidl_audio_session_t_int32_t(value))

Call_aidl2legacy_int32_t_pid_t ==
    /\ op = Idle
    /\ \E value \in HandleWords : Call1("aidl2legacy_int32_t_pid_t", [value |-> value], aidl2legacy_int32_t_pid_t(value))

Call_legacy2aidl_pid_t_int32_t ==
    /\ op = Idle
    /\ \E value \in HandleWords : Call1("legacy2aidl_pid_t_int32_t", [value |-> value], legacy2aidl_pid_t_int32_t(value))

Call_aidl2legacy_int32_t_uid_t ==
    /\ op = Idle
    /\ \E value \in HandleWords : Call1("aidl2legacy_int32_t_uid_t", [value |-> value], aidl2legacy_int32_t_uid_t(value))

Call_legacy2aidl_uid_t_int32_t ==
    /\ op = Idle
    /\ \E value \in HandleWords : Call1("legacy2aidl_uid_t_int32_t", [value |-> value], legacy2aidl_uid_t_int32_t(value))

Call_aidl2legacy_int32_t_audio_channel_mask_t ==
    /\ op = Idle
    /\ \E value \in HandleWords : Call1("aidl2legacy_int32_t_audio_channel_mask_t", [value |-> value], aidl2legacy_int32_t_audio_channel_mask_t(value))

Call_legacy2aidl_audio_channel_mask_t_int32_t ==
    /\ op = Idle
    /\ \E value \in HandleWords : Call1("legacy2aidl_audio_channel_mask_t_int32_t", [value |-> value], legacy2aidl_audio_channel_mask_t_int32_t(value))

Call_aidl2legacy_int32_t_audio_devices_t ==
    /\ op = Idle
    /\ \E value \in HandleWords : Call1("aidl2legacy_int32_t_audio_devices_t", [value |-> value], aidl2legacy_int32_t_audio_devices_t(value))

Call_legacy2aidl_audio_devices_t_int32_t ==
    /\ op = Idle
    /\ \E value \in HandleWords : Call1("legacy2aidl_audio_devices_t_int32_t", [value |-> value], legacy2aidl_audio_devices_t_int32_t(value))

NextHandle ==
    \/ Call_aidl2legacy_int32_t_audio_module_handle_t
    \/ Call_legacy2aidl_audio_module_handle_t_int32_t
    \/ Call_aidl2legacy_int32_t_audio_io_handle_t
    \/ Call_legacy2aidl_audio_io_handle_t_int32_t
    \/ Call_aidl2legacy_int32_t_audio_port_handle_t
    \/ Call_legacy2aidl_audio_port_handle_t_int32_t
    \/ Call_aidl2legacy_int32_t_audio_patch_handle_t
    \/ Call_legacy2aidl_audio_patch_handle_t_int32_t
    \/ Call_aidl2legacy_int32_t_audio_unique_id_t
    \/ Call_legacy2aidl_audio_unique_id_t_int32_t
    \/ Call_aidl2legacy_int32_t_audio_session_t
    \/ Call_legacy2aidl_audio_session_t_int32_t
    \/ Call_aidl2legacy_int32_t_pid_t
    \/ Call_legacy2aidl_pid_t_int32_t
    \/ Call_aidl2legacy_int32_t_uid_t
    \/ Call_legacy2aidl_uid_t_int32_t
    \/ Call_aidl2legacy_int32_t_audio_channel_mask_t
    \/ Call_legacy2aidl_audio_channel_mask_t_int32_t
    \/ Call_aidl2legacy_int32_t_audio_devices_t
    \/ Call_legacy2aidl_audio_devices_t_int32_t
    \/ Return

SpecHandle == Init /\ [][NextHandle]_vars
\* ---------------------------------------------------------------------------
\* Invocations on several threads: a gain-mode mask conversion (an instance of
\* convertBitmask) and aidl2legacy_AudioIoDescriptor_AudioIoDescriptor, each
\* advancing one statement at a time, interleaved in every order.

MaskCall == "aidl2legacy_int32_t_audio_gain_mode_t"

DescriptorCall == "aidl2legacy_AudioIoDescriptor_AudioIoDescriptor"

\* convertBitmask<DestMask, SrcMask, DestEnum, SrcEnum> instantiated with a
\* per-bit converter that accepts every enumerator, indexes on the source side
\* and on the destination side.
TotalMaskCall == "convertBitmask"

\* The instances of convertBitmask that a thread runs statement by statement.
LoopInstances == {MaskCall, "legacy2aidl_audio_output_flags_mask", TotalMaskCall}

\* The three function objects that an instance hands to convertBitmask.
InstanceEnumConversion(call) ==
    CASE call = MaskCall -> [e \in Int |-> aidl2legacy_AudioGainMode_int(e)]
      [] call = "legacy2aidl_audio_output_flags_mask" -> [e \in Int |-> legacy2aidl_audio_output_flags_t_AudioOutputFlags(e)]
      [] call = TotalMaskCall -> [e \in Int |-> Ok(e)]

InstanceSrcIndexToEnum(call) == IF call = "legacy2aidl_audio_output_flags_mask" THEN fn_index2enum_bitmask ELSE fn_index2enum_index

InstanceDestEnumToMask(call) == IF call = MaskCall THEN fn_enumToMask_bitmask ELSE fn_enumToMask_index

\* JOINT | CHANNELS, and bit 3, which is no gain mode.
ThreadMasks == {3, 8}

\* What fills the stack of a thread before a call: each thread has its own
\* stack.
ThreadJunk(t) == IF t % 2 = 1 THEN -77 ELSE -78

\* The good descriptor, one that differs in its port id, one whose latency does
\* not convert.
ThreadIoDescriptors == {GoodWireIoDescriptor, [GoodWireIoDescriptor EXCEPT !.portId = 8], [GoodWireIoDescriptor EXCEPT !.latency = -1]}

threadSet(t, state) == threads' = [threads EXCEPT ![t] = state]

Begin_convertBitmask ==
    \E t \in Threads : \E src \in ThreadMasks :
        /\ threads[t].pc = "idle"
        /\ threadSet(t, [pc |-> "while", call |-> MaskCall, input |-> [src |-> src], local |-> convertBitmaskEntry(src), result |-> <<>>])
        /\ UNCHANGED <<op, arg, res, touched, heap>>

Step_convertBitmask ==
    \E t \in Threads :
        /\ threads[t].pc = "while"
        /\ \E step \in {convertBitmaskStep(threads[t].local, InstanceEnumConversion(threads[t].call), InstanceSrcIndexToEnum(threads[t].call), InstanceDestEnumToMask(threads[t].call))} :
               threadSet(t, [threads[t] EXCEPT !.pc = IF step.returns THEN "done" ELSE "while", !.local = step.local, !.result = step.result])
        /\ UNCHANGED <<op, arg, res, touched, heap>>

\* All threads of a process are built for the same size_t.
Begin_AudioIoDescriptor ==
    \E t \in Threads : \E aidl \in ThreadIoDescriptors, SizeBits \in SizeWidths :
        /\ threads[t].pc = "idle"
        /\ \A u \in Threads : threads[u].call = DescriptorCall => threads[u].input.SizeBits = SizeBits
        /\ threadSet(t, [pc |-> "new", call |-> DescriptorCall, input |-> [aidl |-> aidl, SizeBits |-> SizeBits, junk |-> ThreadJunk(t)], local |-> <<>>, result |-> <<>>])
        /\ UNCHANGED <<op, arg, res, touched, heap>>

\* sp<AudioIoDescriptor> legacy(new AudioIoDescriptor());
New_AudioIoDescriptor ==
    \E t \in Threads :
        /\ threads[t].pc = "new"
        /\ LET p == newAudioIoDescriptor(heap)
           IN  /\ heap' = heapStore(heap, p, FreshAudioIoDescriptor)
               /\ threadSet(t, [threads[t] EXCEPT !.pc = "assign", !.local = [legacy |-> p, next |-> 1]])
        /\ UNCHANGED <<op, arg, res, touched>>

\* The next legacy->field = VALUE_OR_RETURN(...): on an error the invocation
\* returns it and its sp, the only reference, deletes the object; after the
\* last assignment the invocation returns the pointer.
Assign_AudioIoDescriptor ==
    \E t \in Threads :
        /\ threads[t].pc = "assign"
        /\ threads[t].local.legacy \in DOMAIN heap
        /\ \E in \in {threads[t].input}, legacy \in {threads[t].local.legacy}, next \in {threads[t].local.next} :
           \E a \in {aidl2legacy_AudioIoDescriptor_assignment(in.aidl, in.SizeBits, JunkPatch(in.junk), JunkPortConfig(in.junk), next)} :
               IF ~a.value.ok
               THEN /\ heap' = heapDelete(heap, legacy)
                    /\ threadSet(t, [threads[t] EXCEPT !.pc = "done", !.local = <<>>, !.result = Unexpected])
               ELSE /\ heap' = heapStore(heap, legacy, assignField(heap[legacy], a.field, a.value.v))
                    /\ threadSet(t, IF next = AudioIoDescriptorAssignments THEN [threads[t] EXCEPT !.pc = "done", !.local = <<>>, !.result = Ok(legacy)] ELSE [threads[t] EXCEPT !.local.next = next + 1])
        /\ UNCHANGED <<op, arg, res, touched>>

\* The caller is done with the result; dropping the last sp to a descriptor
\* deletes it.
Drop ==
    \E t \in Threads :
        /\ threads[t].pc = "done"
        /\ threadSet(t, NotRunning)
        /\ heap' = IF threads[t].call = DescriptorCall /\ threads[t].result.ok THEN heapDelete(heap, threads[t].result.v) ELSE heap
        /\ UNCHANGED <<op, arg, res, touched>>

NextConcurrent ==
    \/ Begin_convertBitmask
    \/ Step_convertBitmask
    \/ Begin_AudioIoDescriptor
    \/ New_AudioIoDescriptor
    \/ Assign_AudioIoDescriptor
    \/ Drop

SpecConcurrent == Init /\ [][NextConcurrent]_vars

\* ---------------------------------------------------------------------------
\* One invocation of convertBitmask, statement by statement, on masks of every
\* shape: none, low bits, the bit below the top, the top bit alone and with
\* others, all bits.

LoopMasks == {0, 1, 5, 6, 2 ^ 14, 2 ^ 30, 2 ^ 30 + 1, INT32_MIN, INT32_MIN + 1, INT32_MIN + 2 ^ 30, -2, -1}

Enter_convertBitmask ==
    \E call \in LoopInstances, src \in LoopMasks :
        /\ threads[1].pc = "idle"
        /\ threadSet(1, [pc |-> "while", call |-> call, input |-> [src |-> src], local |-> convertBitmaskEntry(src), result |-> <<>>])
        /\ UNCHANGED <<op, arg, res, touched, heap>>

NextLoop ==
    \/ Enter_convertBitmask
    \/ Step_convertBitmask
    \/ Drop

SpecLoop == Init /\ [][NextLoop]_vars

\* A thread that is in the loop executes its next statement.
SpecLoopFair == SpecLoop /\ WF_vars(Step_convertBitmask)

\* ---------------------------------------------------------------------------
\* The mask converters together with the per-value converter of the attribute
\* flags, legacy to wire.

NextSentinel ==
    \/ NextMask
    \/ Call_legacy2aidl_audio_flags_mask_t_AudioFlag

SpecSentinel == Init /\ [][NextSentinel]_vars

\* ---------------------------------------------------------------------------
\* The format converters and the aggregate converters that convert a format.

\* Format words: the default, PCM 16 bit, MP3, a word that names no format,
\* AUDIO_FORMAT_INVALID (all bits set), the least and the largest int32.
FormatWords == {0, 1, 16777216, 12345, -1, INT32_MIN, INT32_MAX}

Call_aidl2legacy_AudioFormat_audio_format_t ==
    /\ op = Idle
    /\ \E value \in FormatWords : Call1("aidl2legacy_AudioFormat_audio_format_t", [value |-> value], aidl2legacy_AudioFormat_audio_format_t(value))

Call_legacy2aidl_audio_format_t_AudioFormat ==
    /\ op = Idle
    /\ \E value \in FormatWords : Call1("legacy2aidl_audio_format_t_AudioFormat", [value |-> value], legacy2aidl_audio_format_t_AudioFormat(value))

NextFormat ==
    \/ Call_aidl2legacy_AudioFormat_audio_format_t
    \/ Call_legacy2aidl_audio_format_t_AudioFormat
    \/ Call_aidl2legacy_AudioPortConfig_audio_port_config
    \/ Call_legacy2aidl_audio_port_config_AudioPortConfig
    \/ Call_aidl2legacy_AudioIoDescriptor_AudioIoDescriptor
    \/ Call_legacy2aidl_AudioIoDescriptor_AudioIoDescriptor
    \/ Call_aidl2legacy_AudioConfigBase_audio_config_base_t
    \/ Call_legacy2aidl_audio_config_base_t_AudioConfigBase
    \/ Call_aidl2legacy_AudioConfig_audio_config_t
    \/ Call_legacy2aidl_audio_config_t_AudioConfig
    \/ Return

SpecFormat == Init /\ [][NextFormat]_vars

\* ---------------------------------------------------------------------------
\* Properties of the bitmask converters.

Aidl2LegacyMaskOps ==
    {"aidl2legacy_int32_t_config_mask", "aidl2legacy_int32_t_audio_gain_mode_t", "aidl2legacy_audio_input_flags_mask",
     "aidl2legacy_audio_output_flags_mask", "aidl2legacy_int32_t_audio_flags_mask_t_mask"}

Legacy2AidlMaskOps ==
    {"legacy2aidl_config_mask_int32_t", "legacy2aidl_audio_gain_mode_t_int32_t", "legacy2aidl_audio_input_flags_mask",
     "legacy2aidl_audio_output_flags_mask", "legacy2aidl_audio_flags_mask_t_int32_t_mask"}

MaskOps == Aidl2LegacyMaskOps \cup Legacy2AidlMaskOps

\* What the per-bit enum converter of mask converter `name` returns for the enum
\* decoded from source bit i: a wire enum is the bit index, a legacy enum the
\* single-bit mask.
PerBitResult(name, i) ==
    CASE name = "aidl2legacy_int32_t_config_mask" -> aidl2legacy_AudioPortConfigType(i)
      [] name = "aidl2legacy_int32_t_audio_gain_mode_t" -> aidl2legacy_AudioGainMode_int(i)
      [] name = "aidl2legacy_audio_input_flags_mask" -> aidl2legacy_AudioInputFlags_audio_input_flags_t(i)
      [] name = "aidl2legacy_audio_output_flags_mask" -> aidl2legacy_AudioOutputFlags_audio_output_flags_t(i)
      [] name = "aidl2legacy_int32_t_audio_flags_mask_t_mask" -> aidl2legacy_AudioFlag_audio_flags_mask_t(i)
      [] name = "legacy2aidl_config_mask_int32_t" -> legacy2aidl_AudioPortConfigType(OneShl(i))
      [] name = "legacy2aidl_audio_gain_mode_t_int32_t" -> legacy2aidl_int_AudioGainMode(OneShl(i))
      [] name = "legacy2aidl_audio_input_flags_mask" -> legacy2aidl_audio_input_flags_t_AudioInputFlags(OneShl(i))
      [] name = "legacy2aidl_audio_output_flags_mask" -> legacy2aidl_audio_output_flags_t_AudioOutputFlags(OneShl(i))
      [] name = "legacy2aidl_audio_flags_mask_t_int32_t_mask" -> legacy2aidl_audio_flags_mask_t_AudioFlag(OneShl(i))

\* The destination bits of a converted enum: a legacy enum is its mask, a wire
\* enum the index of its one bit.
DestBits(name, destEnum) == IF name \in Aidl2LegacyMaskOps THEN SetBits(destEnum) ELSE {destEnum}

RejectedBits(name, src) == {i \in SetBits(src) : ~PerBitResult(name, i).ok}

ImageBits(name, src) == UNION {DestBits(name, PerBitResult(name, i).v) : i \in SetBits(src) \ RejectedBits(name, src)}

\* C1: every bitmask converter returns BAD_VALUE if the per-bit enum converter
\* rejects the enum of at least one set source bit, and otherwise exactly the
\* OR of the single-bit destination masks of the converted set bits: no partial
\* mask, no source bit dropped, no destination bit that is not an image.
C1_BitmaskIsAllOrNothingImage ==
    op \in MaskOps =>
        IF RejectedBits(op, arg) # {}
        THEN res = Unexpected
        ELSE /\ res.ok
             /\ SetBits(res.v) = ImageBits(op, arg)
             /\ \A i \in SetBits(arg) : Cardinality(DestBits(op, PerBitResult(op, i).v)) = 1

\* Two accepted bits whose images are not at the source positions.
C1_Witness ==
    /\ op = "legacy2aidl_audio_output_flags_mask"
    /\ arg = AUDIO_OUTPUT_FLAG_DIRECT_PCM + AUDIO_OUTPUT_FLAG_PRIMARY
    /\ res = Ok(OneShl(AudioOutputFlags_DIRECT_PCM) + OneShl(AudioOutputFlags_PRIMARY))

\* The wire-to-legacy converter of the pair of legacy-to-wire converter `name`.
BackToLegacy(name, aidl) ==
    CASE name = "legacy2aidl_config_mask_int32_t" -> aidl2legacy_int32_t_config_mask(aidl)
      [] name = "legacy2aidl_audio_gain_mode_t_int32_t" -> aidl2legacy_int32_t_audio_gain_mode_t(aidl)
      [] name = "legacy2aidl_audio_input_flags_mask" -> aidl2legacy_audio_input_flags_mask(aidl)
      [] name = "legacy2aidl_audio_output_flags_mask" -> aidl2legacy_audio_output_flags_mask(aidl)
      [] name = "legacy2aidl_audio_flags_mask_t_int32_t_mask" -> aidl2legacy_int32_t_audio_flags_mask_t_mask(aidl)

\* C2: for each of the five mask pairs, a legacy mask whose set bits the per-bit
\* legacy2aidl converter all accepts converts to wire and back to itself; a
\* legacy mask with a rejected bit makes legacy2aidl fail as a whole.
C2_BitmaskRoundTrip ==
    op \in Legacy2AidlMaskOps =>
        IF RejectedBits(op, arg) = {}
        THEN res.ok /\ BackToLegacy(op, res.v) = Ok(arg)
        ELSE res = Unexpected

C2_Witness ==
    /\ op = "legacy2aidl_audio_output_flags_mask"
    /\ arg = AUDIO_OUTPUT_FLAG_INCALL_MUSIC + AUDIO_OUTPUT_FLAG_MMAP_NOIRQ
    /\ res.ok
    /\ res.v # arg
    /\ BackToLegacy(op, res.v) = Ok(arg)

\* ---------------------------------------------------------------------------
\* Properties of the Direction derivation and of the gain-config converters.

\* The table of the Direction derivation, on wire or legacy constants alike
\* (the two enums number NONE, SOURCE, SINK and NONE, DEVICE, MIX, SESSION the
\* same way).
DirectionTable(role, type) ==
    IF <<role, type>> \in {<<AudioPortRole_SOURCE, AudioPortType_DEVICE>>, <<AudioPortRole_SINK, AudioPortType_MIX>>}
    THEN Ok(Direction_INPUT)
    ELSE IF <<role, type>> \in {<<AudioPortRole_SINK, AudioPortType_DEVICE>>, <<AudioPortRole_SOURCE, AudioPortType_MIX>>}
    THEN Ok(Direction_OUTPUT)
    ELSE Unexpected

\* C3: Direction is defined for exactly four (role, type) pairs, (SOURCE, DEVICE)
\* and (SINK, MIX) giving INPUT, (SINK, DEVICE) and (SOURCE, MIX) giving OUTPUT,
\* and is BAD_VALUE for every other pair; the wire-typed and the legacy-typed
\* overloads agree on every wire pair the role and type converters accept.
C3_DirectionTable ==
    /\ op = "direction_AudioPortRole_AudioPortType" =>
          /\ res = DirectionTable(arg.role, arg.type)
          /\ LET role == aidl2legacy_AudioPortRole_audio_port_role_t(arg.role)
                 type == aidl2legacy_AudioPortType_audio_port_type_t(arg.type)
             IN  role.ok /\ type.ok => direction_audio_port_role_t_audio_port_type_t(role.v, type.v) = res
    /\ op = "direction_audio_port_role_t_audio_port_type_t" =>
          res = (IF <<arg.role, arg.type>> \in {<<AUDIO_PORT_ROLE_SOURCE, AUDIO_PORT_TYPE_DEVICE>>, <<AUDIO_PORT_ROLE_SINK, AUDIO_PORT_TYPE_MIX>>}
                 THEN Ok(Direction_INPUT)
                 ELSE IF <<arg.role, arg.type>> \in {<<AUDIO_PORT_ROLE_SINK, AUDIO_PORT_TYPE_DEVICE>>, <<AUDIO_PORT_ROLE_SOURCE, AUDIO_PORT_TYPE_MIX>>}
                 THEN Ok(Direction_OUTPUT)
                 ELSE Unexpected)

C3_Witness ==
    /\ op = "direction_AudioPortRole_AudioPortType"
    /\ arg = [role |-> AudioPortRole_SOURCE, type |-> AudioPortType_MIX]
    /\ res = Ok(Direction_OUTPUT)

GainOps == {"aidl2legacy_AudioGainConfig_audio_gain_config", "legacy2aidl_audio_gain_config_AudioGainConfig"}

\* The gain mode, channel mask, ramp duration and number of values of the gain
\* config a gain-config call was given, whichever the direction.
GainArg ==
    IF op = "aidl2legacy_AudioGainConfig_audio_gain_config"
    THEN [joint |-> 0 \in SetBits(arg.aidl.mode), modeOk |-> RejectedBits("aidl2legacy_int32_t_audio_gain_mode_t", arg.aidl.mode) = {},
          channelMask |-> arg.aidl.channelMask, rampOk |-> arg.aidl.rampDurationMs >= 0]
    ELSE [joint |-> 0 \in SetBits(arg.legacy.mode), modeOk |-> RejectedBits("legacy2aidl_audio_gain_mode_t_int32_t", arg.legacy.mode) = {},
          channelMask |-> arg.legacy.channel_mask, rampOk |-> arg.legacy.ramp_duration_ms >= 0]

\* N of the claims: 1 when joint, else the channel count of the channel mask
\* read as an input or as an output mask, by Direction.
ExpectedNumValues ==
    IF GainArg.joint THEN 1
    ELSE IF DirectionTable(arg.role, arg.type) = Ok(Direction_INPUT)
    THEN audio_channel_count_from_in_mask(GainArg.channelMask)
    ELSE audio_channel_count_from_out_mask(GainArg.channelMask)

\* C4 as stated: gain-config conversion with role SOURCE and type MIX fails.
C4_SourceMixFails ==
    op \in GainOps /\ arg.role = AudioPortRole_SOURCE /\ arg.type = AudioPortType_MIX => res = Unexpected

\* C4 as amended: gain-config conversion (either direction) fails with BAD_VALUE
\* for every (role, type) that is not one of the four valid Direction pairs;
\* (SOURCE, MIX) is one of the four, with Direction OUTPUT, and with it the
\* conversion succeeds exactly when the gain mode converts, the ramp duration is
\* in range and (wire to legacy) the number of values is the count taken from
\* the channel mask read as an output mask, or 1 when joint.
C4_InvalidPairFailsSourceMixIsOutput ==
    op \in GainOps =>
        /\ ~DirectionTable(arg.role, arg.type).ok => res = Unexpected
        /\ arg.role = AudioPortRole_SOURCE /\ arg.type = AudioPortType_MIX =>
              (res.ok <=> /\ GainArg.modeOk
                          /\ GainArg.rampOk
                          /\ op = "aidl2legacy_AudioGainConfig_audio_gain_config" =>
                                Len(arg.aidl.values) = (IF GainArg.joint THEN 1 ELSE audio_channel_count_from_out_mask(GainArg.channelMask)))

C4_Witness ==
    /\ op = "aidl2legacy_AudioGainConfig_audio_gain_config"
    /\ arg.role = AudioPortRole_SOURCE
    /\ arg.type = AudioPortType_MIX
    /\ ~GainArg.joint
    /\ Len(arg.aidl.values) = 2
    /\ res.ok

\* C5: with N = 1 when the JOINT bit is set and otherwise the channel count by
\* Direction, aidl2legacy succeeds only if the wire values have length exactly N
\* and then copies exactly N values; legacy2aidl emits exactly N values.
C5_GainValueCount ==
    /\ op = "aidl2legacy_AudioGainConfig_audio_gain_config" /\ res.ok =>
          /\ Len(arg.aidl.values) = ExpectedNumValues
          /\ touched = 0 .. (ExpectedNumValues - 1)
          /\ \A i \in 0 .. (GainValuesCapacity - 1) :
                res.v.values[i] = IF i < ExpectedNumValues THEN arg.aidl.values[i + 1] ELSE arg.junk.values[i]
    /\ op = "legacy2aidl_audio_gain_config_AudioGainConfig" /\ res.ok =>
          /\ Len(res.v.values) = ExpectedNumValues
          /\ touched = 0 .. (ExpectedNumValues - 1)
          /\ \A i \in 1 .. ExpectedNumValues : res.v.values[i] = arg.legacy.values[i - 1]

\* A successful conversion each way that is not joint and has three channels
\* as an index mask.
C5_Witness ==
    /\ op = "legacy2aidl_audio_gain_config_AudioGainConfig"
    /\ ~GainArg.joint
    /\ arg.role = AudioPortRole_SINK /\ arg.type = AudioPortType_MIX
    /\ arg.legacy.channel_mask = 12
    /\ res.ok
    /\ Len(res.v.values) = 2

UseCaseMemberOf(role) ==
    CASE role = AudioPortRole_NONE -> "nothing"
      [] role = AudioPortRole_SOURCE -> "stream"
      [] role = AudioPortRole_SINK -> "source"

\* C7: in both directions role SOURCE goes with the legacy stream field and the
\* wire member 'stream', role SINK with the legacy source field and the wire
\* member 'source', and role NONE with the wire member 'nothing' and no legacy
\* field written; wire-to-legacy a union whose tag is not the one the role
\* selects fails with BAD_VALUE, and legacy-to-wire the emitted tag is exactly
\* the one the role selects.
C7_MixUseCaseMapping ==
    /\ (op = "aidl2legacy_AudioPortConfigMixExtUseCase" /\ arg.role \in AudioPortRole_NONE .. AudioPortRole_SINK) =>
          IF arg.aidl.tag # UseCaseMemberOf(arg.role) THEN res = Unexpected
          ELSE CASE arg.role = AudioPortRole_NONE -> res = Ok(arg.junk)
                 [] arg.role = AudioPortRole_SOURCE ->
                      (LET stream == aidl2legacy_AudioStreamType_audio_stream_type_t(arg.aidl.value)
                       IN  IF stream.ok THEN res = Ok(LegacyUseCase(stream.v))
                           ELSE res = Unexpected)
                 [] arg.role = AudioPortRole_SINK ->
                      (LET source == aidl2legacy_AudioSourceType_audio_source_t(arg.aidl.value)
                       IN  IF source.ok THEN res = Ok(LegacyUseCase(source.v))
                           ELSE res = Unexpected)
    /\ (op = "legacy2aidl_AudioPortConfigMixExtUseCase" /\ arg.role \in AUDIO_PORT_ROLE_NONE .. AUDIO_PORT_ROLE_SINK) =>
          /\ res.ok => res.v.tag = UseCaseMemberOf(arg.role)
          /\ CASE arg.role = AUDIO_PORT_ROLE_NONE -> res.ok
               [] arg.role = AUDIO_PORT_ROLE_SOURCE ->
                    (LET stream == legacy2aidl_audio_stream_type_t_AudioStreamType(arg.legacy.stream)
                     IN  IF stream.ok THEN res.ok /\ res.v.value = stream.v ELSE res = Unexpected)
               [] arg.role = AUDIO_PORT_ROLE_SINK ->
                    (LET source == legacy2aidl_audio_source_t_AudioSourceType(arg.legacy.source)
                     IN  IF source.ok THEN res.ok /\ res.v.value = source.v ELSE res = Unexpected)

\* A SOURCE role has put the music stream type into the legacy stream field.
C7_Witness ==
    /\ op = "aidl2legacy_AudioPortConfigMixExtUseCase"
    /\ arg.role = AudioPortRole_SOURCE
    /\ arg.aidl = unionSet("stream", AudioStreamType_MUSIC)
    /\ res.ok
    /\ res.v.stream = AUDIO_STREAM_MUSIC

\* ---------------------------------------------------------------------------
\* Port config.

\* Values to put in place of a gated wire field, some of which do not convert.
WireAlternatives(field) ==
    CASE field = "sampleRate" -> SampleRates
      [] field = "channelMask" -> {3, 12}
      [] field = "format" -> {1, 2}
      [] field = "gain" -> WirePortGains
      [] field = "flags" -> WirePortFlags \cup {unionSet("output", 1048576)}

LegacyAlternatives(field) ==
    CASE field = "sample_rate" -> SampleRates
      [] field = "channel_mask" -> {3, 12}
      [] field = "format" -> {1, 2}
      [] field = "gain" -> LegacyPortGains
      [] field = "flags" -> LegacyPortFlags \cup {LegacyIoFlags(1048576)}

\* The gated fields: wire name, wire bit index, legacy name, legacy bit.
GatedFields ==
    {<<"sampleRate", AudioPortConfigType_SAMPLE_RATE, "sample_rate", AUDIO_PORT_CONFIG_SAMPLE_RATE>>,
     <<"channelMask", AudioPortConfigType_CHANNEL_MASK, "channel_mask", AUDIO_PORT_CONFIG_CHANNEL_MASK>>,
     <<"format", AudioPortConfigType_FORMAT, "format", AUDIO_PORT_CONFIG_FORMAT>>,
     <<"gain", AudioPortConfigType_GAIN, "gain", AUDIO_PORT_CONFIG_GAIN>>,
     <<"flags", AudioPortConfigType_FLAGS, "flags", AUDIO_PORT_CONFIG_FLAGS>>}

\* C8: in both directions, when the bit of a gated field (sample rate, channel
\* mask, format, gain, flags) is clear in the config mask, the destination
\* field is not written and the outcome and every output field are the same
\* whatever the source field holds; with the GAIN bit clear a gain config with
\* a wrong value count does not make the conversion fail by itself, and with
\* the GAIN bit set it makes the whole conversion fail.
C8_PresenceGating ==
    /\ op = "aidl2legacy_AudioPortConfig_audio_port_config" =>
          /\ \A g \in GatedFields :
                ~bitmaskIsSet(arg.aidl.configMask, g[2]) =>
                   /\ res.ok => res.v[g[3]] = arg.junk[g[3]]
                   /\ \A alt \in WireAlternatives(g[1]) :
                         aidl2legacy_AudioPortConfig_audio_port_config([arg.aidl EXCEPT ![g[1]] = alt], arg.junk) = res
          /\ (bitmaskIsSet(arg.aidl.configMask, AudioPortConfigType_GAIN) /\ arg.aidl.gain.values = <<>>) => ~res.ok
    /\ op = "legacy2aidl_audio_port_config_AudioPortConfig" =>
          \A g \in GatedFields :
             BitAnd(arg.legacy.config_mask, g[4]) = 0 =>
                /\ res.ok => res.v[g[1]] = DefaultAudioPortConfig[g[1]]
                /\ \A alt \in LegacyAlternatives(g[3]) :
                      legacy2aidl_audio_port_config_AudioPortConfig([arg.legacy EXCEPT ![g[3]] = alt]) = res

\* With the GAIN bit clear a port config whose gain has a wrong value count
\* and whose sample rate is negative has converted, and neither field was written.
C8_Witness ==
    /\ op = "aidl2legacy_AudioPortConfig_audio_port_config"
    /\ ~bitmaskIsSet(arg.aidl.configMask, AudioPortConfigType_GAIN)
    /\ ~bitmaskIsSet(arg.aidl.configMask, AudioPortConfigType_SAMPLE_RATE)
    /\ bitmaskIsSet(arg.aidl.configMask, AudioPortConfigType_FLAGS)
    /\ arg.aidl.gain.values = <<>>
    /\ arg.aidl.sampleRate < 0
    /\ res.ok
    /\ res.v.gain = arg.junk.gain
    /\ res.v.sample_rate = arg.junk.sample_rate

\* C9: a port config whose config mask has the GAIN bit set, whose (role,
\* type) is a valid Direction pair, whose gain config has the matching value
\* count and whose other fields are valid converts in both directions; the
\* result's config mask has the GAIN bit set and its gain field holds the
\* converted gain config. The other fields are valid when the same port config
\* without the GAIN bit converts.
C9_GainBitConverts ==
    /\ op = "aidl2legacy_AudioPortConfig_audio_port_config" =>
          LET gain == aidl2legacy_AudioGainConfig_audio_gain_config(arg.aidl.gain, arg.aidl.role, arg.aidl.type, arg.junk.gain)
              others == aidl2legacy_AudioPortConfig_audio_port_config([arg.aidl EXCEPT !.configMask = BitAnd(@, 23)], arg.junk)
          IN  (bitmaskIsSet(arg.aidl.configMask, AudioPortConfigType_GAIN) /\ gain.ok /\ others.ok) =>
                 /\ res.ok
                 /\ BitAnd(res.v.config_mask, AUDIO_PORT_CONFIG_GAIN) # 0
                 /\ res.v.gain = gain.v
    /\ op = "legacy2aidl_audio_port_config_AudioPortConfig" =>
          LET gain == legacy2aidl_audio_gain_config_AudioGainConfig(arg.legacy.gain, arg.legacy.role, arg.legacy.type)
              others == legacy2aidl_audio_port_config_AudioPortConfig([arg.legacy EXCEPT !.config_mask = BitAnd(@, 23)])
          IN  (BitAnd(arg.legacy.config_mask, AUDIO_PORT_CONFIG_GAIN) # 0 /\ gain.ok /\ others.ok) =>
                 /\ res.ok
                 /\ bitmaskIsSet(res.v.configMask, AudioPortConfigType_GAIN)
                 /\ res.v.gain = gain.v

\* A port config with only the GAIN bit set, a valid Direction pair, a gain
\* config that converts and other fields that convert has been refused.
C9_Refused ==
    /\ op = "aidl2legacy_AudioPortConfig_audio_port_config"
    /\ arg.aidl.configMask = enumToMask_index(AudioPortConfigType_GAIN)
    /\ arg.aidl.role = AudioPortRole_SINK
    /\ arg.aidl.type = AudioPortType_DEVICE
    /\ aidl2legacy_AudioGainConfig_audio_gain_config(arg.aidl.gain, arg.aidl.role, arg.aidl.type, arg.junk.gain).ok
    /\ aidl2legacy_AudioPortConfig_audio_port_config([arg.aidl EXCEPT !.configMask = 0], arg.junk).ok
    /\ res = Unexpected

\* ---------------------------------------------------------------------------
\* Strings.

\* The indexes of the NUL bytes among the first maxSize bytes of a buffer.
NulIndexes(bytes, maxSize) == {i \in 0 .. (maxSize - 1) : bytes[i] = 0}

\* C10: for a buffer of capacity maxSize >= 1, aidl2legacy_string fails with
\* BAD_VALUE and writes nothing when the wire string is longer than
\* maxSize - 1, and otherwise copies the whole string and writes a NUL right
\* after it, leaving the rest of the buffer alone; legacy2aidl_string fails
\* with BAD_VALUE when the pointer is null or none of the first maxSize bytes
\* is NUL, and otherwise returns the bytes before the first NUL.
C10_FixedSizeStrings ==
    /\ (op = "aidl2legacy_string" /\ arg.maxSize >= 1) =>
          IF Len(arg.aidl) > arg.maxSize - 1
          THEN res = Unexpected /\ touched = {}
          ELSE /\ res.ok
               /\ touched = 0 .. Len(arg.aidl)
               /\ \A i \in 0 .. (arg.maxSize - 1) :
                     res.v[i] = IF i < Len(arg.aidl) THEN arg.aidl[i + 1]
                                ELSE IF i = Len(arg.aidl) THEN 0
                                ELSE arg.dest[i]
    /\ op = "legacy2aidl_string" =>
          IF arg.legacy.null THEN res = Unexpected
          ELSE LET nuls == NulIndexes(arg.legacy.bytes, arg.maxSize)
               IN  IF nuls = {} THEN res = Unexpected
                   ELSE LET first == CHOOSE i \in nuls : \A k \in nuls : i <= k
                        IN  res = Ok([i \in 1 .. first |-> arg.legacy.bytes[i - 1]])

\* An address filling the 32-byte buffer with no NUL has failed to convert.
C10_Witness ==
    /\ op = "legacy2aidl_string"
    /\ arg.maxSize = AUDIO_DEVICE_MAX_ADDRESS_LEN
    /\ ~arg.legacy.null
    /\ NulIndexes(arg.legacy.bytes, arg.maxSize) = {}
    /\ res = Unexpected

\* ---------------------------------------------------------------------------
\* Patch.

\* The indexes of the legacy port arrays a call touched.
TouchedPortIndexes == {t[2] : t \in touched}

\* C11: in both directions a patch with more than AUDIO_PATCH_PORTS_MAX sinks
\* or sources fails with BAD_VALUE as a whole, and no element of the legacy
\* sinks and sources arrays at index AUDIO_PATCH_PORTS_MAX or above is read or
\* written; a patch within the bound whose ports all convert succeeds with
\* the same number of sinks and sources, in the same order.
C11_PatchPortCount ==
    /\ op = "aidl2legacy_AudioPatch_audio_patch" =>
          LET sinks == arg.aidl.sinks
              sources == arg.aidl.sources
              port(p) == aidl2legacy_AudioPortConfig_audio_port_config(p, arg.portJunk)
          IN  /\ \A i \in TouchedPortIndexes : i < AUDIO_PATCH_PORTS_MAX
              /\ (Len(sinks) > AUDIO_PATCH_PORTS_MAX \/ Len(sources) > AUDIO_PATCH_PORTS_MAX) => res = Unexpected
              /\ (/\ Len(sinks) <= AUDIO_PATCH_PORTS_MAX
                  /\ Len(sources) <= AUDIO_PATCH_PORTS_MAX
                  /\ \A i \in 1 .. Len(sinks) : port(sinks[i]).ok
                  /\ \A i \in 1 .. Len(sources) : port(sources[i]).ok) =>
                    /\ res.ok
                    /\ res.v.num_sinks = Len(sinks)
                    /\ res.v.num_sources = Len(sources)
                    /\ \A i \in 1 .. Len(sinks) : res.v.sinks[i - 1] = port(sinks[i]).v
                    /\ \A i \in 1 .. Len(sources) : res.v.sources[i - 1] = port(sources[i]).v
    /\ op = "legacy2aidl_audio_patch_AudioPatch" =>
          LET legacy == arg.legacy
              within(n) == 0 <= n /\ n <= AUDIO_PATCH_PORTS_MAX
              port(p) == legacy2aidl_audio_port_config_AudioPortConfig(p)
          IN  /\ \A i \in TouchedPortIndexes : i < AUDIO_PATCH_PORTS_MAX
              /\ (~within(legacy.num_sinks) \/ ~within(legacy.num_sources)) => res = Unexpected
              /\ (/\ within(legacy.num_sinks)
                  /\ within(legacy.num_sources)
                  /\ \A i \in 0 .. (legacy.num_sinks - 1) : port(legacy.sinks[i]).ok
                  /\ \A i \in 0 .. (legacy.num_sources - 1) : port(legacy.sources[i]).ok) =>
                    /\ res.ok
                    /\ Len(res.v.sinks) = legacy.num_sinks
                    /\ Len(res.v.sources) = legacy.num_sources
                    /\ \A i \in 0 .. (legacy.num_sinks - 1) : res.v.sinks[i + 1] = port(legacy.sinks[i]).v
                    /\ \A i \in 0 .. (legacy.num_sources - 1) : res.v.sources[i + 1] = port(legacy.sources[i]).v

\* A wire patch of one more sink than the legacy array holds, all of which
\* convert, has been refused with nothing written.
C11_Witness ==
    /\ op = "aidl2legacy_AudioPatch_audio_patch"
    /\ Len(arg.aidl.sinks) = AUDIO_PATCH_PORTS_MAX + 1
    /\ \A i \in 1 .. Len(arg.aidl.sinks) : aidl2legacy_AudioPortConfig_audio_port_config(arg.aidl.sinks[i], arg.portJunk).ok
    /\ res = Unexpected
    /\ touched = {}

\* ---------------------------------------------------------------------------
\* Aggregates.

\* Whether each field conversion the aggregate converter of the call in
\* progress executes on its argument succeeds, in the order of the code. A
\* field behind a presence bit, a union tag or a version counts when the
\* converter reaches it.
C12_FieldsOk ==
    CASE op = "aidl2legacy_AudioGainConfig_audio_gain_config" ->
           LET dir == direction_AudioPortRole_AudioPortType(arg.role, arg.type)
               mask == aidl2legacy_int32_t_audio_channel_mask_t(arg.aidl.channelMask)
               count == IF bitmaskIsSet(arg.aidl.mode, AudioGainMode_JOINT) THEN 1
                        ELSE IF dir.v = Direction_INPUT THEN audio_channel_count_from_in_mask(mask.v)
                        ELSE audio_channel_count_from_out_mask(mask.v)
           IN  <<aidl2legacy_int32_t_audio_gain_mode_t(arg.aidl.mode).ok, mask.ok, dir.ok,
                 dir.ok => Len(arg.aidl.values) = count /\ count <= GainValuesCapacity,
                 convertIntegral_int32_to_uint32(arg.aidl.rampDurationMs).ok>>
      [] op = "legacy2aidl_audio_gain_config_AudioGainConfig" ->
           LET dir == direction_audio_port_role_t_audio_port_type_t(arg.role, arg.type)
               count == IF BitAnd(arg.legacy.mode, AUDIO_GAIN_MODE_JOINT) # 0 THEN 1
                        ELSE IF dir.v = Direction_INPUT THEN audio_channel_count_from_in_mask(arg.legacy.channel_mask)
                        ELSE audio_channel_count_from_out_mask(arg.legacy.channel_mask)
           IN  <<legacy2aidl_audio_gain_mode_t_int32_t(arg.legacy.mode).ok, legacy2aidl_audio_channel_mask_t_int32_t(arg.legacy.channel_mask).ok, dir.ok,
                 convertIntegral_uint32_to_int32(arg.legacy.ramp_duration_ms).ok>>
      [] op = "aidl2legacy_AudioIoFlags_audio_io_flags" ->
           LET dir == direction_AudioPortRole_AudioPortType(arg.role, arg.type)
               tag == IF dir.v = Direction_INPUT THEN "input" ELSE "output"
           IN  <<dir.ok, dir.ok => arg.aidl.tag = tag,
                 (dir.ok /\ arg.aidl.tag = tag) =>
                    IF tag = "input" THEN aidl2legacy_audio_input_flags_mask(arg.aidl.value).ok ELSE aidl2legacy_audio_output_flags_mask(arg.aidl.value).ok>>
      [] op = "legacy2aidl_audio_io_flags_AudioIoFlags" ->
           LET dir == direction_audio_port_role_t_audio_port_type_t(arg.role, arg.type)
           IN  <<dir.ok,
                 dir.ok => IF dir.v = Direction_INPUT THEN legacy2aidl_audio_input_flags_mask(arg.legacy.input).ok ELSE legacy2aidl_audio_output_flags_mask(arg.legacy.output).ok>>
      [] op = "aidl2legacy_AudioPortConfigExt" ->
           (CASE arg.type = AudioPortType_NONE -> <<arg.aidl.tag = "nothing">>
              [] arg.type = AudioPortType_DEVICE -> <<arg.aidl.tag = "device", arg.aidl.tag = "device" => aidl2legacy_AudioPortConfigDeviceExt(arg.aidl.value, arg.junk.device).ok>>
              [] arg.type = AudioPortType_MIX -> <<arg.aidl.tag = "mix", arg.aidl.tag = "mix" => aidl2legacy_AudioPortConfigMixExt(arg.aidl.value, arg.role, arg.junk.mix).ok>>
              [] arg.type = AudioPortType_SESSION -> <<arg.aidl.tag = "session", arg.aidl.tag = "session" => aidl2legacy_AudioPortConfigSessionExt(arg.aidl.value).ok>>)
      [] op = "legacy2aidl_AudioPortConfigExt" ->
           (CASE arg.type = AUDIO_PORT_TYPE_NONE -> <<>>
              [] arg.type = AUDIO_PORT_TYPE_DEVICE -> <<legacy2aidl_AudioPortConfigDeviceExt(arg.legacy.device).ok>>
              [] arg.type = AUDIO_PORT_TYPE_MIX -> <<legacy2aidl_AudioPortConfigMixExt(arg.legacy.mix, arg.role).ok>>
              [] arg.type = AUDIO_PORT_TYPE_SESSION -> <<legacy2aidl_AudioPortConfigSessionExt(arg.legacy.session).ok>>)
      [] op = "aidl2legacy_AudioPortConfig_audio_port_config" ->
           LET aidl == arg.aidl
               has(b) == bitmaskIsSet(aidl.configMask, b)
               role == aidl2legacy_AudioPortRole_audio_port_role_t(aidl.role)
               type == aidl2legacy_AudioPortType_audio_port_type_t(aidl.type)
           IN  <<role.ok, type.ok, aidl2legacy_int32_t_config_mask(aidl.configMask).ok,
                 has(AudioPortConfigType_SAMPLE_RATE) => convertIntegral_int32_to_uint32(aidl.sampleRate).ok,
                 has(AudioPortConfigType_CHANNEL_MASK) => aidl2legacy_int32_t_audio_channel_mask_t(aidl.channelMask).ok,
                 has(AudioPortConfigType_FORMAT) => aidl2legacy_AudioFormat_audio_format_t(aidl.format).ok,
                 has(AudioPortConfigType_GAIN) => aidl2legacy_AudioGainConfig_audio_gain_config(aidl.gain, aidl.role, aidl.type, arg.junk.gain).ok,
                 has(AudioPortConfigType_FLAGS) => aidl2legacy_AudioIoFlags_audio_io_flags(aidl.flags, aidl.role, aidl.type, arg.junk.flags).ok,
                 (role.ok /\ type.ok) => aidl2legacy_AudioPortConfigExt(aidl.ext, aidl.type, aidl.role, arg.junk.ext).ok>>
      [] op = "legacy2aidl_audio_port_config_AudioPortConfig" ->
           LET legacy == arg.legacy
               has(b) == BitAnd(legacy.config_mask, b) # 0
               role == legacy2aidl_audio_port_role_t_AudioPortRole(legacy.role)
               type == legacy2aidl_audio_port_type_t_AudioPortType(legacy.type)
           IN  <<role.ok, type.ok, legacy2aidl_config_mask_int32_t(legacy.config_mask).ok,
                 has(AUDIO_PORT_CONFIG_SAMPLE_RATE) => convertIntegral_uint32_to_int32(legacy.sample_rate).ok,
                 has(AUDIO_PORT_CONFIG_CHANNEL_MASK) => legacy2aidl_audio_channel_mask_t_int32_t(legacy.channel_mask).ok,
                 has(AUDIO_PORT_CONFIG_FORMAT) => legacy2aidl_audio_format_t_AudioFormat(legacy.format).ok,
                 has(AUDIO_PORT_CONFIG_GAIN) => legacy2aidl_audio_gain_config_AudioGainConfig(legacy.gain, legacy.role, legacy.type).ok,
                 has(AUDIO_PORT_CONFIG_FLAGS) => legacy2aidl_audio_io_flags_AudioIoFlags(legacy.flags, legacy.role, legacy.type).ok,
                 (role.ok /\ type.ok) => legacy2aidl_AudioPortConfigExt(legacy.ext, legacy.type, legacy.role).ok>>
      [] op = "aidl2legacy_AudioPatch_audio_patch" ->
           LET port(p) == aidl2legacy_AudioPortConfig_audio_port_config(p, arg.portJunk).ok
           IN  <<Len(arg.aidl.sinks) <= AUDIO_PATCH_PORTS_MAX>> \o [i \in 1 .. Len(arg.aidl.sinks) |-> port(arg.aidl.sinks[i])]
               \o <<Len(arg.aidl.sources) <= AUDIO_PATCH_PORTS_MAX>> \o [i \in 1 .. Len(arg.aidl.sources) |-> port(arg.aidl.sources[i])]
      [] op = "legacy2aidl_audio_patch_AudioPatch" ->
           LET port(p) == legacy2aidl_audio_port_config_AudioPortConfig(p).ok
               within(n) == 0 <= n /\ n <= AUDIO_PATCH_PORTS_MAX
               ports(n, a) == IF within(n) THEN [i \in 1 .. n |-> port(a[i - 1])] ELSE <<>>
           IN  <<within(arg.legacy.num_sinks)>> \o ports(arg.legacy.num_sinks, arg.legacy.sinks)
               \o <<within(arg.legacy.num_sources)>> \o ports(arg.legacy.num_sources, arg.legacy.sources)
      [] op = "aidl2legacy_AudioIoDescriptor_AudioIoDescriptor" ->
           <<aidl2legacy_AudioPatch_audio_patch(arg.aidl.patch, arg.junk, arg.portJunk).ok,
             convertIntegral_int32_to_uint32(arg.aidl.samplingRate).ok,
             convertIntegral_int64_to_size_t(arg.aidl.frameCount, arg.SizeBits).ok,
             convertIntegral_int64_to_size_t(arg.aidl.frameCountHAL, arg.SizeBits).ok,
             convertIntegral_int32_to_uint32(arg.aidl.latency).ok>>
      [] op = "legacy2aidl_AudioIoDescriptor_AudioIoDescriptor" ->
           <<legacy2aidl_audio_patch_AudioPatch(arg.legacy.mPatch).ok,
             convertIntegral_uint32_to_int32(arg.legacy.mSamplingRate).ok,
             convertIntegral_size_t_to_int64(arg.legacy.mFrameCount, arg.SizeBits).ok,
             convertIntegral_size_t_to_int64(arg.legacy.mFrameCountHAL, arg.SizeBits).ok,
             convertIntegral_uint32_to_int32(arg.legacy.mLatency).ok>>
      [] op = "aidl2legacy_AudioClient" -> <<aidl2legacy_string_view_String16(arg.aidl.packageName).ok>>
      [] op = "legacy2aidl_AudioClient" -> <<legacy2aidl_String16_string(arg.legacy.packageName).ok>>
      [] op = "aidl2legacy_AudioAttributesInternal_audio_attributes_t" ->
           <<aidl2legacy_AudioContentType_audio_content_type_t(arg.aidl.contentType).ok,
             aidl2legacy_AudioUsage_audio_usage_t(arg.aidl.usage).ok,
             aidl2legacy_AudioSourceType_audio_source_t(arg.aidl.source).ok,
             aidl2legacy_int32_t_audio_flags_mask_t_mask(arg.aidl.flags).ok,
             aidl2legacy_string(arg.aidl.tags, arg.junk.tags, AUDIO_ATTRIBUTES_TAGS_MAX_SIZE).ok>>
      [] op = "legacy2aidl_audio_attributes_t_AudioAttributesInternal" ->
           <<legacy2aidl_audio_content_type_t_AudioContentType(arg.legacy.content_type).ok,
             legacy2aidl_audio_usage_t_AudioUsage(arg.legacy.usage).ok,
             legacy2aidl_audio_source_t_AudioSourceType(arg.legacy.source).ok,
             legacy2aidl_audio_flags_mask_t_int32_t_mask(arg.legacy.flags).ok,
             legacy2aidl_string([null |-> FALSE, bytes |-> arg.legacy.tags], AUDIO_ATTRIBUTES_TAGS_MAX_SIZE).ok>>
      [] op = "aidl2legacy_AudioConfigBase_audio_config_base_t" -> <<convertIntegral_int32_to_uint32(arg.aidl.sampleRate).ok>>
      [] op = "legacy2aidl_audio_config_base_t_AudioConfigBase" -> <<convertIntegral_uint32_to_int32(arg.legacy.sample_rate).ok>>
      [] op = "aidl2legacy_AudioOffloadInfo_audio_offload_info_t" ->
           <<convertIntegral_int32_to_uint16(arg.aidl.version).ok,
             aidl2legacy_AudioConfigBase_audio_config_base_t(arg.aidl.config).ok,
             aidl2legacy_AudioStreamType_audio_stream_type_t(arg.aidl.streamType).ok,
             convertIntegral_int32_to_uint32(arg.aidl.bitRate).ok,
             convertIntegral_int32_to_uint32(arg.aidl.bitWidth).ok,
             convertIntegral_int32_to_uint32(arg.aidl.offloadBufferSize).ok,
             aidl2legacy_AudioUsage_audio_usage_t(arg.aidl.usage).ok,
             aidl2legacy_audio_encapsulation_mode_t_AudioEncapsulationMode(arg.aidl.encapsulationMode).ok>>
      [] op = "legacy2aidl_audio_offload_info_t_AudioOffloadInfo" ->
           LET legacy == arg.legacy
               has_0_2 == legacy.version >= AUDIO_OFFLOAD_INFO_VERSION_0_2
           IN  <<legacy.size >= AUDIO_OFFLOAD_INFO_SIZE_0_1,
                 convertIntegral_uint32_to_int32(legacy.sample_rate).ok,
                 legacy2aidl_audio_stream_type_t_AudioStreamType(legacy.stream_type).ok,
                 convertIntegral_uint32_to_int32(legacy.bit_rate).ok,
                 convertIntegral_uint32_to_int32(legacy.bit_width).ok,
                 convertIntegral_uint32_to_int32(legacy.offload_buffer_size).ok,
                 legacy2aidl_audio_usage_t_AudioUsage(legacy.usage).ok,
                 has_0_2 => legacy.size >= AUDIO_OFFLOAD_INFO_SIZE_0_2,
                 has_0_2 => legacy2aidl_AudioEncapsulationMode_audio_encapsulation_mode_t(legacy.encapsulation_mode).ok>>
      [] op = "aidl2legacy_AudioConfig_audio_config_t" ->
           <<convertIntegral_int32_to_uint32(arg.aidl.sampleRate).ok,
             aidl2legacy_AudioOffloadInfo_audio_offload_info_t(arg.aidl.offloadInfo).ok,
             convertIntegral_int64_to_uint32(arg.aidl.frameCount).ok>>
      [] op = "legacy2aidl_audio_config_t_AudioConfig" ->
           <<convertIntegral_uint32_to_int32(arg.legacy.sample_rate).ok,
             legacy2aidl_audio_offload_info_t_AudioOffloadInfo(arg.legacy.offload_info).ok>>

\* The calls of aggregate converters C12 is about: every one, except a direct
\* call of a port-config extension converter with a type that is no port type
\* or, for a mix, a role that is no port role, which aborts before any field
\* conversion.
C12_AggregateCall ==
    /\ op \in {"aidl2legacy_AudioGainConfig_audio_gain_config", "legacy2aidl_audio_gain_config_AudioGainConfig",
               "aidl2legacy_AudioIoFlags_audio_io_flags", "legacy2aidl_audio_io_flags_AudioIoFlags",
               "aidl2legacy_AudioPortConfigExt", "legacy2aidl_AudioPortConfigExt",
               "aidl2legacy_AudioPortConfig_audio_port_config", "legacy2aidl_audio_port_config_AudioPortConfig",
               "aidl2legacy_AudioPatch_audio_patch", "legacy2aidl_audio_patch_AudioPatch",
               "aidl2legacy_AudioIoDescriptor_AudioIoDescriptor", "legacy2aidl_AudioIoDescriptor_AudioIoDescriptor",
               "aidl2legacy_AudioClient", "legacy2aidl_AudioClient",
               "aidl2legacy_AudioAttributesInternal_audio_attributes_t", "legacy2aidl_audio_attributes_t_AudioAttributesInternal",
               "aidl2legacy_AudioConfigBase_audio_config_base_t", "legacy2aidl_audio_config_base_t_AudioConfigBase",
               "aidl2legacy_AudioOffloadInfo_audio_offload_info_t", "legacy2aidl_audio_offload_info_t_AudioOffloadInfo",
               "aidl2legacy_AudioConfig_audio_config_t", "legacy2aidl_audio_config_t_AudioConfig"}
    /\ op \in {"aidl2legacy_AudioPortConfigExt", "legacy2aidl_AudioPortConfigExt"} =>
          /\ arg.type \in AudioPortType_NONE .. AudioPortType_SESSION
          /\ arg.type = AudioPortType_MIX => arg.role \in AudioPortRole_NONE .. AudioPortRole_SINK

\* The position of the first field conversion that fails, 0 if none does.
C12_FirstFailing ==
    LET fields == C12_FieldsOk
        failing == {i \in 1 .. Len(fields) : ~fields[i]}
    IN  IF failing = {} THEN 0 ELSE CHOOSE i \in failing : \A k \in failing : i <= k

\* C12: a call of an aggregate converter succeeds exactly when every field
\* conversion it executes succeeds; when one fails the call returns BAD_VALUE,
\* and no later field converter has run: the call has not aborted in one, and
\* of a patch no port after the failing one has been converted. So a patch or
\* an I/O descriptor holding a port config that does not convert fails as a
\* whole.
C12_AllOrNothing ==
    C12_AggregateCall =>
       LET k == C12_FirstFailing
           sinks == Len(arg.aidl.sinks)
       IN  /\ res.ok <=> k = 0
           /\ ~res.ok => res = Unexpected
           /\ (op = "aidl2legacy_AudioPatch_audio_patch" /\ ~res.ok) =>
                 /\ k = 1 => touched = {}
                 /\ (1 < k /\ k <= sinks + 1) => touched = {<<"sinks", i>> : i \in 0 .. (k - 3)}
                 /\ k = sinks + 2 => touched = {<<"sinks", i>> : i \in 0 .. (sinks - 1)}
                 /\ k > sinks + 2 => touched = {<<"sinks", i>> : i \in 0 .. (sinks - 1)} \cup {<<"sources", i>> : i \in 0 .. (k - sinks - 4)}

\* A wire patch whose first sink converts and whose second does not has been
\* refused with BAD_VALUE after the first sink alone was written.
C12_Witness ==
    /\ op = "aidl2legacy_AudioPatch_audio_patch"
    /\ Len(arg.aidl.sinks) = 2
    /\ aidl2legacy_AudioPortConfig_audio_port_config(arg.aidl.sinks[1], arg.portJunk).ok
    /\ ~aidl2legacy_AudioPortConfig_audio_port_config(arg.aidl.sinks[2], arg.portJunk).ok
    /\ res = Unexpected
    /\ touched = {<<"sinks", 0>>}

\* ---------------------------------------------------------------------------
\* Enums.

EnumOps ==
    {"aidl2legacy_AudioPortConfigType",
     "legacy2aidl_AudioPortConfigType",
     "aidl2legacy_AudioIoConfigEvent_audio_io_config_event",
     "legacy2aidl_audio_io_config_event_AudioIoConfigEvent",
     "aidl2legacy_AudioPortRole_audio_port_role_t",
     "legacy2aidl_audio_port_role_t_AudioPortRole",
     "aidl2legacy_AudioPortType_audio_port_type_t",
     "legacy2aidl_audio_port_type_t_AudioPortType",
     "aidl2legacy_AudioGainMode_int",
     "legacy2aidl_int_AudioGainMode",
     "aidl2legacy_AudioInputFlags_audio_input_flags_t",
     "legacy2aidl_audio_input_flags_t_AudioInputFlags",
     "aidl2legacy_AudioOutputFlags_audio_output_flags_t",
     "legacy2aidl_audio_output_flags_t_AudioOutputFlags",
     "aidl2legacy_AudioStreamType_audio_stream_type_t",
     "legacy2aidl_audio_stream_type_t_AudioStreamType",
     "aidl2legacy_AudioSourceType_audio_source_t",
     "legacy2aidl_audio_source_t_AudioSourceType",
     "aidl2legacy_AudioContentType_audio_content_type_t",
     "legacy2aidl_audio_content_type_t_AudioContentType",
     "aidl2legacy_AudioUsage_audio_usage_t",
     "legacy2aidl_audio_usage_t_AudioUsage",
     "aidl2legacy_AudioFlag_audio_flags_mask_t",
     "legacy2aidl_audio_flags_mask_t_AudioFlag",
     "aidl2legacy_audio_encapsulation_mode_t_AudioEncapsulationMode",
     "legacy2aidl_AudioEncapsulationMode_audio_encapsulation_mode_t"}

\* The converter of the opposite direction of the same enum, applied to v.
EnumInverse(name, v) ==
    CASE name = "aidl2legacy_AudioPortConfigType" -> legacy2aidl_AudioPortConfigType(v)
      [] name = "legacy2aidl_AudioPortConfigType" -> aidl2legacy_AudioPortConfigType(v)
      [] name = "aidl2legacy_AudioIoConfigEvent_audio_io_config_event" -> legacy2aidl_audio_io_config_event_AudioIoConfigEvent(v)
      [] name = "legacy2aidl_audio_io_config_event_AudioIoConfigEvent" -> aidl2legacy_AudioIoConfigEvent_audio_io_config_event(v)
      [] name = "aidl2legacy_AudioPortRole_audio_port_role_t" -> legacy2aidl_audio_port_role_t_AudioPortRole(v)
      [] name = "legacy2aidl_audio_port_role_t_AudioPortRole" -> aidl2legacy_AudioPortRole_audio_port_role_t(v)
      [] name = "aidl2legacy_AudioPortType_audio_port_type_t" -> legacy2aidl_audio_port_type_t_AudioPortType(v)
      [] name = "legacy2aidl_audio_port_type_t_AudioPortType" -> aidl2legacy_AudioPortType_audio_port_type_t(v)
      [] name = "aidl2legacy_AudioGainMode_int" -> legacy2aidl_int_AudioGainMode(v)
      [] name = "legacy2aidl_int_AudioGainMode" -> aidl2legacy_AudioGainMode_int(v)
      [] name = "aidl2legacy_AudioInputFlags_audio_input_flags_t" -> legacy2aidl_audio_input_flags_t_AudioInputFlags(v)
      [] name = "legacy2aidl_audio_input_flags_t_AudioInputFlags" -> aidl2legacy_AudioInputFlags_audio_input_flags_t(v)
      [] name = "aidl2legacy_AudioOutputFlags_audio_output_flags_t" -> legacy2aidl_audio_output_flags_t_AudioOutputFlags(v)
      [] name = "legacy2aidl_audio_output_flags_t_AudioOutputFlags" -> aidl2legacy_AudioOutputFlags_audio_output_flags_t(v)
      [] name = "aidl2legacy_AudioStreamType_audio_stream_type_t" -> legacy2aidl_audio_stream_type_t_AudioStreamType(v)
      [] name = "legacy2aidl_audio_stream_type_t_AudioStreamType" -> aidl2legacy_AudioStreamType_audio_stream_type_t(v)
      [] name = "aidl2legacy_AudioSourceType_audio_source_t" -> legacy2aidl_audio_source_t_AudioSourceType(v)
      [] name = "legacy2aidl_audio_source_t_AudioSourceType" -> aidl2legacy_AudioSourceType_audio_source_t(v)
      [] name = "aidl2legacy_AudioContentType_audio_content_type_t" -> legacy2aidl_audio_content_type_t_AudioContentType(v)
      [] name = "legacy2aidl_audio_content_type_t_AudioContentType" -> aidl2legacy_AudioContentType_audio_content_type_t(v)
      [] name = "aidl2legacy_AudioUsage_audio_usage_t" -> legacy2aidl_audio_usage_t_AudioUsage(v)
      [] name = "legacy2aidl_audio_usage_t_AudioUsage" -> aidl2legacy_AudioUsage_audio_usage_t(v)
      [] name = "aidl2legacy_AudioFlag_audio_flags_mask_t" -> legacy2aidl_audio_flags_mask_t_AudioFlag(v)
      [] name = "legacy2aidl_audio_flags_mask_t_AudioFlag" -> aidl2legacy_AudioFlag_audio_flags_mask_t(v)
      [] name = "aidl2legacy_audio_encapsulation_mode_t_AudioEncapsulationMode" -> legacy2aidl_AudioEncapsulationMode_audio_encapsulation_mode_t(v)
      [] name = "legacy2aidl_AudioEncapsulationMode_audio_encapsulation_mode_t" -> aidl2legacy_audio_encapsulation_mode_t_AudioEncapsulationMode(v)

\* The values the mapping table of a converter maps: the case labels of its
\* switch that return a value.
EnumListed(name) ==
    CASE name = "aidl2legacy_AudioPortConfigType" ->
           {AudioPortConfigType_SAMPLE_RATE, AudioPortConfigType_CHANNEL_MASK, AudioPortConfigType_FORMAT, AudioPortConfigType_FLAGS}
      [] name = "legacy2aidl_AudioPortConfigType" ->
           {AUDIO_PORT_CONFIG_SAMPLE_RATE, AUDIO_PORT_CONFIG_CHANNEL_MASK, AUDIO_PORT_CONFIG_FORMAT, AUDIO_PORT_CONFIG_FLAGS}
      [] name = "aidl2legacy_AudioIoConfigEvent_audio_io_config_event" ->
           {AudioIoConfigEvent_OUTPUT_REGISTERED, AudioIoConfigEvent_OUTPUT_OPENED, AudioIoConfigEvent_OUTPUT_CLOSED, AudioIoConfigEvent_OUTPUT_CONFIG_CHANGED, AudioIoConfigEvent_INPUT_REGISTERED, AudioIoConfigEvent_INPUT_OPENED, AudioIoConfigEvent_INPUT_CLOSED, AudioIoConfigEvent_INPUT_CONFIG_CHANGED, AudioIoConfigEvent_CLIENT_STARTED}
      [] name = "legacy2aidl_audio_io_config_event_AudioIoConfigEvent" ->
           {AUDIO_OUTPUT_REGISTERED, AUDIO_OUTPUT_OPENED, AUDIO_OUTPUT_CLOSED, AUDIO_OUTPUT_CONFIG_CHANGED, AUDIO_INPUT_REGISTERED, AUDIO_INPUT_OPENED, AUDIO_INPUT_CLOSED, AUDIO_INPUT_CONFIG_CHANGED, AUDIO_CLIENT_STARTED}
      [] name = "aidl2legacy_AudioPortRole_audio_port_role_t" ->
           {AudioPortRole_NONE, AudioPortRole_SOURCE, AudioPortRole_SINK}
      [] name = "legacy2aidl_audio_port_role_t_AudioPortRole" ->
           {AUDIO_PORT_ROLE_NONE, AUDIO_PORT_ROLE_SOURCE, AUDIO_PORT_ROLE_SINK}
      [] name = "aidl2legacy_AudioPortType_audio_port_type_t" ->
           {AudioPortType_NONE, AudioPortType_DEVICE, AudioPortType_MIX, AudioPortType_SESSION}
      [] name = "legacy2aidl_audio_port_type_t_AudioPortType" ->
           {AUDIO_PORT_TYPE_NONE, AUDIO_PORT_TYPE_DEVICE, AUDIO_PORT_TYPE_MIX, AUDIO_PORT_TYPE_SESSION}
      [] name = "aidl2legacy_AudioGainMode_int" ->
           {AudioGainMode_JOINT, AudioGainMode_CHANNELS, AudioGainMode_RAMP}
      [] name = "legacy2aidl_int_AudioGainMode" ->
           {AUDIO_GAIN_MODE_JOINT, AUDIO_GAIN_MODE_CHANNELS, AUDIO_GAIN_MODE_RAMP}
      [] name = "aidl2legacy_AudioInputFlags_audio_input_flags_t" ->
           {AudioInputFlags_FAST, AudioInputFlags_HW_HOTWORD, AudioInputFlags_RAW, AudioInputFlags_SYNC, AudioInputFlags_MMAP_NOIRQ, AudioInputFlags_VOIP_TX, AudioInputFlags_HW_AV_SYNC, AudioInputFlags_DIRECT}
      [] name = "legacy2aidl_audio_input_flags_t_AudioInputFlags" ->
           {AUDIO_INPUT_FLAG_FAST, AUDIO_INPUT_FLAG_HW_HOTWORD, AUDIO_INPUT_FLAG_RAW, AUDIO_INPUT_FLAG_SYNC, AUDIO_INPUT_FLAG_MMAP_NOIRQ, AUDIO_INPUT_FLAG_VOIP_TX, AUDIO_INPUT_FLAG_HW_AV_SYNC, AUDIO_INPUT_FLAG_DIRECT}
      [] name = "aidl2legacy_AudioOutputFlags_audio_output_flags_t" ->
           {AudioOutputFlags_DIRECT, AudioOutputFlags_PRIMARY, AudioOutputFlags_FAST, AudioOutputFlags_DEEP_BUFFER, AudioOutputFlags_COMPRESS_OFFLOAD, AudioOutputFlags_NON_BLOCKING, AudioOutputFlags_HW_AV_SYNC, AudioOutputFlags_TTS, AudioOutputFlags_RAW, AudioOutputFlags_SYNC, AudioOutputFlags_IEC958_NONAUDIO, AudioOutputFlags_DIRECT_PCM, AudioOutputFlags_MMAP_NOIRQ, AudioOutputFlags_VOIP_RX, AudioOutputFlags_INCALL_MUSIC}
      [] name = "legacy2aidl_audio_output_flags_t_AudioOutputFlags" ->
           {AUDIO_OUTPUT_FLAG_DIRECT, AUDIO_OUTPUT_FLAG_PRIMARY, AUDIO_OUTPUT_FLAG_FAST, AUDIO_OUTPUT_FLAG_DEEP_BUFFER, AUDIO_OUTPUT_FLAG_COMPRESS_OFFLOAD, AUDIO_OUTPUT_FLAG_NON_BLOCKING, AUDIO_OUTPUT_FLAG_HW_AV_SYNC, AUDIO_OUTPUT_FLAG_TTS, AUDIO_OUTPUT_FLAG_RAW, AUDIO_OUTPUT_FLAG_SYNC, AUDIO_OUTPUT_FLAG_IEC958_NONAUDIO, AUDIO_OUTPUT_FLAG_DIRECT_PCM, AUDIO_OUTPUT_FLAG_MMAP_NOIRQ, AUDIO_OUTPUT_FLAG_VOIP_RX, AUDIO_OUTPUT_FLAG_INCALL_MUSIC}
      [] name = "aidl2legacy_AudioStreamType_audio_stream_type_t" ->
           {AudioStreamType_DEFAULT, AudioStreamType_VOICE_CALL, AudioStreamType_SYSTEM, AudioStreamType_RING, AudioStreamType_MUSIC, AudioStreamType_ALARM, AudioStreamType_NOTIFICATION, AudioStreamType_BLUETOOTH_SCO, AudioStreamType_ENFORCED_AUDIBLE, AudioStreamType_DTMF, AudioStreamType_TTS, AudioStreamType_ACCESSIBILITY, AudioStreamType_ASSISTANT, AudioStreamType_REROUTING, AudioStreamType_PATCH, AudioStreamType_CALL_ASSISTANT}
      [] name = "legacy2aidl_audio_stream_type_t_AudioStreamType" ->
           {AUDIO_STREAM_DEFAULT, AUDIO_STREAM_VOICE_CALL, AUDIO_STREAM_SYSTEM, AUDIO_STREAM_RING, AUDIO_STREAM_MUSIC, AUDIO_STREAM_ALARM, AUDIO_STREAM_NOTIFICATION, AUDIO_STREAM_BLUETOOTH_SCO, AUDIO_STREAM_ENFORCED_AUDIBLE, AUDIO_STREAM_DTMF, AUDIO_STREAM_TTS, AUDIO_STREAM_ACCESSIBILITY, AUDIO_STREAM_ASSISTANT, AUDIO_STREAM_REROUTING, AUDIO_STREAM_PATCH, AUDIO_STREAM_CALL_ASSISTANT}
      [] name = "aidl2legacy_AudioSourceType_audio_source_t" ->
           {AudioSourceType_INVALID, AudioSourceType_DEFAULT, AudioSourceType_MIC, AudioSourceType_VOICE_UPLINK, AudioSourceType_VOICE_DOWNLINK, AudioSourceType_VOICE_CALL, AudioSourceType_CAMCORDER, AudioSourceType_VOICE_RECOGNITION, AudioSourceType_VOICE_COMMUNICATION, AudioSourceType_REMOTE_SUBMIX, AudioSourceType_UNPROCESSED, AudioSourceType_VOICE_PERFORMANCE, AudioSourceType_ECHO_REFERENCE, AudioSourceType_FM_TUNER, AudioSourceType_HOTWORD}
      [] name = "legacy2aidl_audio_source_t_AudioSourceType" ->
           {AUDIO_SOURCE_INVALID, AUDIO_SOURCE_DEFAULT, AUDIO_SOURCE_MIC, AUDIO_SOURCE_VOICE_UPLINK, AUDIO_SOURCE_VOICE_DOWNLINK, AUDIO_SOURCE_VOICE_CALL, AUDIO_SOURCE_CAMCORDER, AUDIO_SOURCE_VOICE_RECOGNITION, AUDIO_SOURCE_VOICE_COMMUNICATION, AUDIO_SOURCE_REMOTE_SUBMIX, AUDIO_SOURCE_UNPROCESSED, AUDIO_SOURCE_VOICE_PERFORMANCE, AUDIO_SOURCE_ECHO_REFERENCE, AUDIO_SOURCE_FM_TUNER, AUDIO_SOURCE_HOTWORD}
      [] name = "aidl2legacy_AudioContentType_audio_content_type_t" ->
           {AudioContentType_UNKNOWN, AudioContentType_SPEECH, AudioContentType_MUSIC, AudioContentType_MOVIE, AudioContentType_SONIFICATION}
      [] name = "legacy2aidl_audio_content_type_t_AudioContentType" ->
           {AUDIO_CONTENT_TYPE_UNKNOWN, AUDIO_CONTENT_TYPE_SPEECH, AUDIO_CONTENT_TYPE_MUSIC, AUDIO_CONTENT_TYPE_MOVIE, AUDIO_CONTENT_TYPE_SONIFICATION}
      [] name = "aidl2legacy_AudioUsage_audio_usage_t" ->
           {AudioUsage_UNKNOWN, AudioUsage_MEDIA, AudioUsage_VOICE_COMMUNICATION, AudioUsage_VOICE_COMMUNICATION_SIGNALLING, AudioUsage_ALARM, AudioUsage_NOTIFICATION, AudioUsage_NOTIFICATION_TELEPHONY_RINGTONE, AudioUsage_NOTIFICATION_COMMUNICATION_REQUEST, AudioUsage_NOTIFICATION_COMMUNICATION_INSTANT, AudioUsage_NOTIFICATION_COMMUNICATION_DELAYED, AudioUsage_NOTIFICATION_EVENT, AudioUsage_ASSISTANCE_ACCESSIBILITY, AudioUsage_ASSISTANCE_NAVIGATION_GUIDANCE, AudioUsage_ASSISTANCE_SONIFICATION, AudioUsage_GAME, AudioUsage_VIRTUAL_SOURCE, AudioUsage_ASSISTANT, AudioUsage_CALL_ASSISTANT, AudioUsage_EMERGENCY, AudioUsage_SAFETY, AudioUsage_VEHICLE_STATUS, AudioUsage_ANNOUNCEMENT}
      [] name = "legacy2aidl_audio_usage_t_AudioUsage" ->
           {AUDIO_USAGE_UNKNOWN, AUDIO_USAGE_MEDIA, AUDIO_USAGE_VOICE_COMMUNICATION, AUDIO_USAGE_VOICE_COMMUNICATION_SIGNALLING, AUDIO_USAGE_ALARM, AUDIO_USAGE_NOTIFICATION, AUDIO_USAGE_NOTIFICATION_TELEPHONY_RINGTONE, AUDIO_USAGE_NOTIFICATION_COMMUNICATION_REQUEST, AUDIO_USAGE_NOTIFICATION_COMMUNICATION_INSTANT, AUDIO_USAGE_NOTIFICATION_COMMUNICATION_DELAYED, AUDIO_USAGE_NOTIFICATION_EVENT, AUDIO_USAGE_ASSISTANCE_ACCESSIBILITY, AUDIO_USAGE_ASSISTANCE_NAVIGATION_GUIDANCE, AUDIO_USAGE_ASSISTANCE_SONIFICATION, AUDIO_USAGE_GAME, AUDIO_USAGE_VIRTUAL_SOURCE, AUDIO_USAGE_ASSISTANT, AUDIO_USAGE_CALL_ASSISTANT, AUDIO_USAGE_EMERGENCY, AUDIO_USAGE_SAFETY, AUDIO_USAGE_VEHICLE_STATUS, AUDIO_USAGE_ANNOUNCEMENT}
      [] name = "aidl2legacy_AudioFlag_audio_flags_mask_t" ->
           {AudioFlag_AUDIBILITY_ENFORCED, AudioFlag_SECURE, AudioFlag_SCO, AudioFlag_BEACON, AudioFlag_HW_AV_SYNC, AudioFlag_HW_HOTWORD, AudioFlag_BYPASS_INTERRUPTION_POLICY, AudioFlag_BYPASS_MUTE, AudioFlag_LOW_LATENCY, AudioFlag_DEEP_BUFFER, AudioFlag_NO_MEDIA_PROJECTION, AudioFlag_MUTE_HAPTIC, AudioFlag_NO_SYSTEM_CAPTURE, AudioFlag_CAPTURE_PRIVATE}
      [] name = "legacy2aidl_audio_flags_mask_t_AudioFlag" ->
           {AUDIO_FLAG_AUDIBILITY_ENFORCED, AUDIO_FLAG_SECURE, AUDIO_FLAG_SCO, AUDIO_FLAG_BEACON, AUDIO_FLAG_HW_AV_SYNC, AUDIO_FLAG_HW_HOTWORD, AUDIO_FLAG_BYPASS_INTERRUPTION_POLICY, AUDIO_FLAG_BYPASS_MUTE, AUDIO_FLAG_LOW_LATENCY, AUDIO_FLAG_DEEP_BUFFER, AUDIO_FLAG_NO_MEDIA_PROJECTION, AUDIO_FLAG_MUTE_HAPTIC, AUDIO_FLAG_NO_SYSTEM_CAPTURE, AUDIO_FLAG_CAPTURE_PRIVATE}
      [] name = "aidl2legacy_audio_encapsulation_mode_t_AudioEncapsulationMode" ->
           {AudioEncapsulationMode_NONE, AudioEncapsulationMode_ELEMENTARY_STREAM, AudioEncapsulationMode_HANDLE}
      [] name = "legacy2aidl_AudioEncapsulationMode_audio_encapsulation_mode_t" ->
           {AUDIO_ENCAPSULATION_MODE_NONE, AUDIO_ENCAPSULATION_MODE_ELEMENTARY_STREAM, AUDIO_ENCAPSULATION_MODE_HANDLE}
\* C13: for each of the thirteen enum pairs, a value a converter accepts is
\* given back by the converter of the opposite direction applied to the result.
C13_EnumRoundTrip ==
    (op \in EnumOps /\ res.ok) => EnumInverse(op, res.v) = Ok(arg.value)

\* The legacy source ECHO_REFERENCE, whose value follows no other, has been
\* converted.
C13_Witness ==
    /\ op = "legacy2aidl_audio_source_t_AudioSourceType"
    /\ arg.value = AUDIO_SOURCE_ECHO_REFERENCE
    /\ res = Ok(AudioSourceType_ECHO_REFERENCE)
    /\ aidl2legacy_AudioSourceType_audio_source_t(res.v) = Ok(arg.value)

\* C14: every enum converter returns BAD_VALUE for every value its mapping
\* table does not map.
C14_UnlistedRejected ==
    (op \in EnumOps /\ arg.value \notin EnumListed(op)) => res = Unexpected

\* A content type one past the last has been refused.
C14_Witness ==
    /\ op = "aidl2legacy_AudioContentType_audio_content_type_t"
    /\ arg.value = AudioContentType_SONIFICATION + 1
    /\ res = Unexpected

\* ---------------------------------------------------------------------------
\* Opaque handles.

HandleOps ==
    {"aidl2legacy_int32_t_audio_module_handle_t",
     "legacy2aidl_audio_module_handle_t_int32_t",
     "aidl2legacy_int32_t_audio_io_handle_t",
     "legacy2aidl_audio_io_handle_t_int32_t",
     "aidl2legacy_int32_t_audio_port_handle_t",
     "legacy2aidl_audio_port_handle_t_int32_t",
     "aidl2legacy_int32_t_audio_patch_handle_t",
     "legacy2aidl_audio_patch_handle_t_int32_t",
     "aidl2legacy_int32_t_audio_unique_id_t",
     "legacy2aidl_audio_unique_id_t_int32_t",
     "aidl2legacy_int32_t_audio_session_t",
     "legacy2aidl_audio_session_t_int32_t",
     "aidl2legacy_int32_t_pid_t",
     "legacy2aidl_pid_t_int32_t",
     "aidl2legacy_int32_t_uid_t",
     "legacy2aidl_uid_t_int32_t",
     "aidl2legacy_int32_t_audio_channel_mask_t",
     "legacy2aidl_audio_channel_mask_t_int32_t",
     "aidl2legacy_int32_t_audio_devices_t",
     "legacy2aidl_audio_devices_t_int32_t"}

\* The converter of the opposite direction of the same handle type, applied to v.
HandleInverse(name, v) ==
    CASE name = "aidl2legacy_int32_t_audio_module_handle_t" -> legacy2aidl_audio_module_handle_t_int32_t(v)
      [] name = "legacy2aidl_audio_module_handle_t_int32_t" -> aidl2legacy_int32_t_audio_module_handle_t(v)
      [] name = "aidl2legacy_int32_t_audio_io_handle_t" -> legacy2aidl_audio_io_handle_t_int32_t(v)
      [] name = "legacy2aidl_audio_io_handle_t_int32_t" -> aidl2legacy_int32_t_audio_io_handle_t(v)
      [] name = "aidl2legacy_int32_t_audio_port_handle_t" -> legacy2aidl_audio_port_handle_t_int32_t(v)
      [] name = "legacy2aidl_audio_port_handle_t_int32_t" -> aidl2legacy_int32_t_audio_port_handle_t(v)
      [] name = "aidl2legacy_int32_t_audio_patch_handle_t" -> legacy2aidl_audio_patch_handle_t_int32_t(v)
      [] name = "legacy2aidl_audio_patch_handle_t_int32_t" -> aidl2legacy_int32_t_audio_patch_handle_t(v)
      [] name = "aidl2legacy_int32_t_audio_unique_id_t" -> legacy2aidl_audio_unique_id_t_int32_t(v)
      [] name = "legacy2aidl_audio_unique_id_t_int32_t" -> aidl2legacy_int32_t_audio_unique_id_t(v)
      [] name = "aidl2legacy_int32_t_audio_session_t" -> legacy2aidl_audio_session_t_int32_t(v)
      [] name = "legacy2aidl_audio_session_t_int32_t" -> aidl2legacy_int32_t_audio_session_t(v)
      [] name = "aidl2legacy_int32_t_pid_t" -> legacy2aidl_pid_t_int32_t(v)
      [] name = "legacy2aidl_pid_t_int32_t" -> aidl2legacy_int32_t_pid_t(v)
      [] name = "aidl2legacy_int32_t_uid_t" -> legacy2aidl_uid_t_int32_t(v)
      [] name = "legacy2aidl_uid_t_int32_t" -> aidl2legacy_int32_t_uid_t(v)
      [] name = "aidl2legacy_int32_t_audio_channel_mask_t" -> legacy2aidl_audio_channel_mask_t_int32_t(v)
      [] name = "legacy2aidl_audio_channel_mask_t_int32_t" -> aidl2legacy_int32_t_audio_channel_mask_t(v)
      [] name = "aidl2legacy_int32_t_audio_devices_t" -> legacy2aidl_audio_devices_t_int32_t(v)
      [] name = "legacy2aidl_audio_devices_t_int32_t" -> aidl2legacy_int32_t_audio_devices_t(v)

\* C15: an opaque-handle converter never fails, its result has the 32 bits of
\* its argument (the same value, modulo 2^32 where the legacy type is
\* unsigned), and the converter of the opposite direction gives the argument
\* back.
C15_HandlesReinterpret ==
    op \in HandleOps =>
       /\ res.ok
       /\ \A i \in BitIndexes : TestBit(res.v, i) = TestBit(arg.value, i)
       /\ HandleInverse(op, res.v) = Ok(arg.value)

\* The wire value -1 has been converted to a uid_t, which holds 2^32 - 1.
C15_Witness ==
    /\ op = "aidl2legacy_int32_t_uid_t"
    /\ arg.value = -1
    /\ res.ok
    /\ \A i \in BitIndexes : TestBit(res.v, i)
    /\ legacy2aidl_uid_t_int32_t(res.v) = Ok(-1)
\* ---------------------------------------------------------------------------
\* Bounded integers.

\* Whether an integer is representable in the destination type: an int32_t in
\* uint32_t or uint16_t, a uint32_t (its word) in int32_t, an int64_t in
\* uint32_t or size_t, a size_t in int64_t.
FitsUint32(x) == x >= 0

FitsUint16(x) == 0 <= x /\ x <= 65535

FitsInt32(word) == word >= 0

WideFitsUint32(x) == x.hi = 0

WideFitsSize(x, SizeBits) == IF SizeBits = 32 THEN x.hi = 0 ELSE x.hi >= 0

SizeFitsWide(x, SizeBits) == SizeBits = 32 \/ x.hi >= 0

\* C16: a call fails with BAD_VALUE when an integer field it converts is not
\* representable in the destination type; when all are, and the fields of
\* other kinds convert, the call succeeds and each integer field of the result
\* is numerically equal to its source. Checked for the sample rate of a port
\* config, the ramp duration of a gain config, and the integer fields of the
\* I/O descriptor, the config base, the offload info and the config.
C16_IntegersRangeChecked ==
    /\ (op = "aidl2legacy_AudioPortConfig_audio_port_config" /\ bitmaskIsSet(arg.aidl.configMask, AudioPortConfigType_SAMPLE_RATE)) =>
          /\ ~FitsUint32(arg.aidl.sampleRate) => res = Unexpected
          /\ res.ok => res.v.sample_rate = arg.aidl.sampleRate
    /\ (op = "legacy2aidl_audio_port_config_AudioPortConfig" /\ BitAnd(arg.legacy.config_mask, AUDIO_PORT_CONFIG_SAMPLE_RATE) # 0) =>
          /\ ~FitsInt32(arg.legacy.sample_rate) => res = Unexpected
          /\ res.ok => res.v.sampleRate = arg.legacy.sample_rate
    /\ op = "aidl2legacy_AudioGainConfig_audio_gain_config" =>
          /\ ~FitsUint32(arg.aidl.rampDurationMs) => res = Unexpected
          /\ res.ok => res.v.ramp_duration_ms = arg.aidl.rampDurationMs /\ res.v.index = arg.aidl.index
    /\ op = "legacy2aidl_audio_gain_config_AudioGainConfig" =>
          /\ ~FitsInt32(arg.legacy.ramp_duration_ms) => res = Unexpected
          /\ res.ok => res.v.rampDurationMs = arg.legacy.ramp_duration_ms /\ res.v.index = arg.legacy.index
    /\ op = "aidl2legacy_AudioIoDescriptor_AudioIoDescriptor" =>
          LET aidl == arg.aidl
              fits == /\ FitsUint32(aidl.samplingRate)
                      /\ WideFitsSize(aidl.frameCount, arg.SizeBits)
                      /\ WideFitsSize(aidl.frameCountHAL, arg.SizeBits)
                      /\ FitsUint32(aidl.latency)
          IN  /\ ~fits => res = Unexpected
              /\ (fits /\ aidl2legacy_AudioPatch_audio_patch(aidl.patch, arg.junk, arg.portJunk).ok) =>
                    /\ res.ok
                    /\ res.v.mSamplingRate = aidl.samplingRate
                    /\ res.v.mFrameCount = aidl.frameCount
                    /\ res.v.mFrameCountHAL = aidl.frameCountHAL
                    /\ res.v.mLatency = aidl.latency
    /\ op = "legacy2aidl_AudioIoDescriptor_AudioIoDescriptor" =>
          LET legacy == arg.legacy
              fits == /\ FitsInt32(legacy.mSamplingRate)
                      /\ SizeFitsWide(legacy.mFrameCount, arg.SizeBits)
                      /\ SizeFitsWide(legacy.mFrameCountHAL, arg.SizeBits)
                      /\ FitsInt32(legacy.mLatency)
          IN  /\ ~fits => res = Unexpected
              /\ (fits /\ legacy2aidl_audio_patch_AudioPatch(legacy.mPatch).ok) =>
                    /\ res.ok
                    /\ res.v.samplingRate = legacy.mSamplingRate
                    /\ res.v.frameCount = legacy.mFrameCount
                    /\ res.v.frameCountHAL = legacy.mFrameCountHAL
                    /\ res.v.latency = legacy.mLatency
    /\ op = "aidl2legacy_AudioConfigBase_audio_config_base_t" =>
          IF FitsUint32(arg.aidl.sampleRate) THEN res.ok /\ res.v.sample_rate = arg.aidl.sampleRate ELSE res = Unexpected
    /\ op = "legacy2aidl_audio_config_base_t_AudioConfigBase" =>
          IF FitsInt32(arg.legacy.sample_rate) THEN res.ok /\ res.v.sampleRate = arg.legacy.sample_rate ELSE res = Unexpected
    /\ op = "aidl2legacy_AudioOffloadInfo_audio_offload_info_t" =>
          LET aidl == arg.aidl
              fits == /\ FitsUint16(aidl.version)
                      /\ FitsUint32(aidl.config.sampleRate)
                      /\ FitsUint32(aidl.bitRate)
                      /\ FitsUint32(aidl.bitWidth)
                      /\ FitsUint32(aidl.offloadBufferSize)
              others == /\ aidl2legacy_AudioStreamType_audio_stream_type_t(aidl.streamType).ok
                        /\ aidl2legacy_AudioUsage_audio_usage_t(aidl.usage).ok
                        /\ aidl2legacy_audio_encapsulation_mode_t_AudioEncapsulationMode(aidl.encapsulationMode).ok
          IN  /\ ~fits => res = Unexpected
              /\ (fits /\ others) =>
                    /\ res.ok
                    /\ res.v.version = aidl.version
                    /\ res.v.sample_rate = aidl.config.sampleRate
                    /\ res.v.bit_rate = aidl.bitRate
                    /\ res.v.duration_us = aidl.durationUs
                    /\ res.v.bit_width = aidl.bitWidth
                    /\ res.v.offload_buffer_size = aidl.offloadBufferSize
    /\ op = "legacy2aidl_audio_offload_info_t_AudioOffloadInfo" =>
          LET legacy == arg.legacy
              fits == /\ FitsInt32(legacy.sample_rate)
                      /\ FitsInt32(legacy.bit_rate)
                      /\ FitsInt32(legacy.bit_width)
                      /\ FitsInt32(legacy.offload_buffer_size)
          IN  /\ (~fits /\ legacy.size >= AUDIO_OFFLOAD_INFO_SIZE_0_1) => res = Unexpected
              /\ res.ok =>
                    /\ res.v.version = legacy.version
                    /\ res.v.config.sampleRate = legacy.sample_rate
                    /\ res.v.bitRate = legacy.bit_rate
                    /\ res.v.durationUs = legacy.duration_us
                    /\ res.v.bitWidth = legacy.bit_width
                    /\ res.v.offloadBufferSize = legacy.offload_buffer_size
    /\ op = "aidl2legacy_AudioConfig_audio_config_t" =>
          LET fits == FitsUint32(arg.aidl.sampleRate) /\ WideFitsUint32(arg.aidl.frameCount)
          IN  /\ ~fits => res = Unexpected
              /\ (fits /\ aidl2legacy_AudioOffloadInfo_audio_offload_info_t(arg.aidl.offloadInfo).ok) =>
                    res.ok /\ res.v.sample_rate = arg.aidl.sampleRate /\ res.v.frame_count = arg.aidl.frameCount.lo
    /\ op = "legacy2aidl_audio_config_t_AudioConfig" =>
          /\ ~FitsInt32(arg.legacy.sample_rate) => res = Unexpected
          /\ (FitsInt32(arg.legacy.sample_rate) /\ legacy2aidl_audio_offload_info_t_AudioOffloadInfo(arg.legacy.offload_info).ok) =>
                res.ok /\ res.v.sampleRate = arg.legacy.sample_rate /\ res.v.frameCount = Wide(0, arg.legacy.frame_count)

\* A wire I/O descriptor whose only field out of range is a latency of -1 has
\* been refused.
C16_Witness ==
    /\ op = "aidl2legacy_AudioIoDescriptor_AudioIoDescriptor"
    /\ arg.aidl.latency = -1
    /\ arg.aidl.samplingRate = 48000
    /\ arg.aidl.frameCount = Wide(0, 960)
    /\ arg.aidl.frameCountHAL = Wide(0, 960)
    /\ aidl2legacy_AudioPatch_audio_patch(arg.aidl.patch, arg.junk, arg.portJunk).ok
    /\ res = Unexpected

\* ---------------------------------------------------------------------------
\* Wire unions.

\* The tag of media::AudioIoFlags a direction selects, and the tag of
\* media::AudioPortConfigExt a port type selects.
IoFlagsTag(dir) == IF dir = Direction_INPUT THEN "input" ELSE "output"

ExtTag(type) ==
    CASE type = AudioPortType_NONE -> "nothing"
      [] type = AudioPortType_DEVICE -> "device"
      [] type = AudioPortType_MIX -> "mix"
      [] type = AudioPortType_SESSION -> "session"

\* C17: aidl2legacy of the I/O flags succeeds only if the tag of the union is
\* the one Direction selects, and aidl2legacy of the ext only if the tag is the
\* one the port type selects; with a port type of the enum and any other tag
\* the result is BAD_VALUE. legacy2aidl emits the union with the tag so
\* selected and the payload converted from the legacy member of that name. The
\* same holds for the flags and the ext of a port config.
C17_UnionsThroughDiscriminant ==
    /\ op = "aidl2legacy_AudioIoFlags_audio_io_flags" =>
          LET dir == direction_AudioPortRole_AudioPortType(arg.role, arg.type)
          IN  /\ res.ok => dir.ok /\ arg.aidl.tag = IoFlagsTag(dir.v)
              /\ (dir.ok /\ arg.aidl.tag # IoFlagsTag(dir.v)) => res = Unexpected
    /\ op = "legacy2aidl_audio_io_flags_AudioIoFlags" =>
          LET dir == direction_audio_port_role_t_audio_port_type_t(arg.role, arg.type)
          IN  ~res.ok \/
                 /\ dir.ok
                 /\ res.v.tag = IoFlagsTag(dir.v)
                 /\ dir.v = Direction_INPUT => Ok(res.v.value) = legacy2aidl_audio_input_flags_mask(arg.legacy.input)
                 /\ dir.v = Direction_OUTPUT => Ok(res.v.value) = legacy2aidl_audio_output_flags_mask(arg.legacy.output)
    /\ op = "aidl2legacy_AudioPortConfigExt" =>
          /\ res.ok => arg.type \in AudioPortType_NONE .. AudioPortType_SESSION /\ arg.aidl.tag = ExtTag(arg.type)
          /\ (arg.type \in AudioPortType_NONE .. AudioPortType_SESSION /\ arg.aidl.tag # ExtTag(arg.type)) => res = Unexpected
    /\ (op = "legacy2aidl_AudioPortConfigExt" /\ res.ok) =>
             /\ arg.type \in AUDIO_PORT_TYPE_NONE .. AUDIO_PORT_TYPE_SESSION
             /\ res.v.tag = ExtTag(legacy2aidl_audio_port_type_t_AudioPortType(arg.type).v)
             /\ arg.type = AUDIO_PORT_TYPE_DEVICE => Ok(res.v.value) = legacy2aidl_AudioPortConfigDeviceExt(arg.legacy.device)
             /\ arg.type = AUDIO_PORT_TYPE_MIX => Ok(res.v.value) = legacy2aidl_AudioPortConfigMixExt(arg.legacy.mix, arg.role)
             /\ arg.type = AUDIO_PORT_TYPE_SESSION => Ok(res.v.value) = legacy2aidl_AudioPortConfigSessionExt(arg.legacy.session)
    /\ (op = "aidl2legacy_AudioPortConfig_audio_port_config" /\ res.ok) =>
          /\ arg.aidl.ext.tag = ExtTag(arg.aidl.type)
          /\ bitmaskIsSet(arg.aidl.configMask, AudioPortConfigType_FLAGS) =>
                arg.aidl.flags.tag = IoFlagsTag(direction_AudioPortRole_AudioPortType(arg.aidl.role, arg.aidl.type).v)
    /\ (op = "legacy2aidl_audio_port_config_AudioPortConfig" /\ res.ok) =>
          /\ res.v.ext.tag = ExtTag(res.v.type)
          /\ BitAnd(arg.legacy.config_mask, AUDIO_PORT_CONFIG_FLAGS) # 0 =>
                res.v.flags.tag = IoFlagsTag(direction_audio_port_role_t_audio_port_type_t(arg.legacy.role, arg.legacy.type).v)

\* Flags held under the tag 'output' have been refused for a port whose
\* direction is INPUT, though the flag word itself converts.
C17_Witness ==
    /\ op = "aidl2legacy_AudioIoFlags_audio_io_flags"
    /\ direction_AudioPortRole_AudioPortType(arg.role, arg.type) = Ok(Direction_INPUT)
    /\ arg.aidl.tag = "output"
    /\ aidl2legacy_audio_input_flags_mask(arg.aidl.value).ok
    /\ res = Unexpected

\* ---------------------------------------------------------------------------
\* Purity.

\* C18: a call returns what any other call with equal arguments returns, the
\* same outcome and on success a record equal in every field: whatever the
\* storage of the converter's local record held before the call, the result is
\* the same. Stated for the wire-to-legacy converters that fill a local legacy
\* record: I/O flags, gain config, port-config ext, port config, patch, I/O
\* descriptor and attributes.
C18_EqualArgumentsEqualResults ==
    /\ op = "aidl2legacy_AudioIoFlags_audio_io_flags" =>
          \A j \in JunkWords : aidl2legacy_AudioIoFlags_audio_io_flags(arg.aidl, arg.role, arg.type, LegacyIoFlags(j)) = res
    /\ op = "aidl2legacy_AudioGainConfig_audio_gain_config" =>
          \A junk \in JunkGainConfigs : aidl2legacy_AudioGainConfig_audio_gain_config(arg.aidl, arg.role, arg.type, junk) = res
    /\ op = "aidl2legacy_AudioPortConfigExt" =>
          \A junk \in JunkPortConfigs : aidl2legacy_AudioPortConfigExt(arg.aidl, arg.type, arg.role, junk.ext) = res
    /\ op = "aidl2legacy_AudioPortConfig_audio_port_config" =>
          \A junk \in JunkPortConfigs : aidl2legacy_AudioPortConfig_audio_port_config(arg.aidl, junk) = res
    /\ op = "aidl2legacy_AudioPatch_audio_patch" =>
          \A j \in JunkWords : aidl2legacy_AudioPatch_audio_patch(arg.aidl, JunkPatch(j), JunkPortConfig(j)) = res
    /\ op = "aidl2legacy_AudioIoDescriptor_AudioIoDescriptor" =>
          \A j \in JunkWords : aidl2legacy_AudioIoDescriptor_AudioIoDescriptor(arg.aidl, arg.SizeBits, JunkPatch(j), JunkPortConfig(j)) = res
    /\ op = "aidl2legacy_AudioAttributesInternal_audio_attributes_t" =>
          \A j \in JunkWords : aidl2legacy_AudioAttributesInternal_audio_attributes_t(arg.aidl, JunkAttributes(j)) = res

\* A wire port config with no presence bit set has been converted, and the
\* same call over other storage succeeds with the same id, role, type and
\* config mask but another sample rate, another gain index and another value
\* in the last gain slot.
C18_SameArgumentsOtherFields ==
    /\ op = "aidl2legacy_AudioPortConfig_audio_port_config"
    /\ arg.aidl.configMask = 0
    /\ res.ok
    /\ \E junk \in JunkPortConfigs :
          LET other == aidl2legacy_AudioPortConfig_audio_port_config(arg.aidl, junk)
          IN  /\ other.ok
              /\ other.v.id = res.v.id /\ other.v.role = res.v.role /\ other.v.type = res.v.type /\ other.v.config_mask = res.v.config_mask
              /\ other.v.sample_rate # res.v.sample_rate
              /\ other.v.gain.index # res.v.gain.index
              /\ other.v.gain.values[GainValuesCapacity - 1] # res.v.gain.values[GainValuesCapacity - 1]

\* What does not depend on the storage: whether a call succeeds.
C18_OutcomeIsDetermined ==
    /\ op = "aidl2legacy_AudioGainConfig_audio_gain_config" =>
          \A junk \in JunkGainConfigs : aidl2legacy_AudioGainConfig_audio_gain_config(arg.aidl, arg.role, arg.type, junk).ok = res.ok
    /\ op = "aidl2legacy_AudioPortConfig_audio_port_config" =>
          \A junk \in JunkPortConfigs : aidl2legacy_AudioPortConfig_audio_port_config(arg.aidl, junk).ok = res.ok
    /\ op = "aidl2legacy_AudioPatch_audio_patch" =>
          \A j \in JunkWords : aidl2legacy_AudioPatch_audio_patch(arg.aidl, JunkPatch(j), JunkPortConfig(j)).ok = res.ok

\* ---------------------------------------------------------------------------
\* Concurrent invocations.

\* The descriptor an invocation holds: the one it is filling or has returned.
HeldDescriptor(t) ==
    IF threads[t].pc = "assign" THEN {threads[t].local.legacy}
    ELSE IF threads[t].pc = "done" /\ threads[t].call = DescriptorCall /\ threads[t].result.ok THEN {threads[t].result.v}
    ELSE {}

\* C19: under every interleaving, an invocation that has returned has the
\* result it has when run alone (for a descriptor: the same outcome and, on
\* success, a live object whose fields are those of the call run alone), and
\* this stays so while other invocations run; the descriptors held by
\* different invocations are different objects.
C19_NoInterference ==
    /\ \A t \in Threads : threads[t].pc = "done" =>
          IF threads[t].call = MaskCall
          THEN threads[t].result = aidl2legacy_int32_t_audio_gain_mode_t(threads[t].input.src)
          ELSE LET in == threads[t].input
                   alone == aidl2legacy_AudioIoDescriptor_AudioIoDescriptor(in.aidl, in.SizeBits, JunkPatch(in.junk), JunkPortConfig(in.junk))
               IN  /\ threads[t].result.ok <=> alone.ok
                   /\ ~alone.ok => threads[t].result = alone
                   /\ alone.ok => (threads[t].result.v \in DOMAIN heap /\ heap[threads[t].result.v] = alone.v)
    /\ \A t \in Threads : \A u \in Threads \ {t} : HeldDescriptor(t) \cap HeldDescriptor(u) = {}
    /\ \A t \in Threads : HeldDescriptor(t) \subseteq DOMAIN heap

\* Two invocations have returned descriptors for inputs that differ in the
\* port id: two live objects, each with the port id of its own input.
C19_Witness ==
    /\ threads[1].pc = "done" /\ threads[1].call = DescriptorCall /\ threads[1].result.ok
    /\ threads[2].pc = "done" /\ threads[2].call = DescriptorCall /\ threads[2].result.ok
    /\ threads[1].input.aidl.portId = 7 /\ threads[2].input.aidl.portId = 8
    /\ threads[1].result.v # threads[2].result.v
    /\ heap[threads[1].result.v].mPortId = 7
    /\ heap[threads[2].result.v].mPortId = 8

\* ---------------------------------------------------------------------------
\* The abort branches.

\* The entry points built on the port config: the port config, patch and I/O
\* descriptor converters of both directions.
C20_EntryPoints ==
    {"aidl2legacy_AudioPortConfig_audio_port_config", "legacy2aidl_audio_port_config_AudioPortConfig",
     "aidl2legacy_AudioPatch_audio_patch", "legacy2aidl_audio_patch_AudioPatch",
     "aidl2legacy_AudioIoDescriptor_AudioIoDescriptor", "legacy2aidl_AudioIoDescriptor_AudioIoDescriptor"}

\* C20: a call of the port config, patch or I/O descriptor converters, whatever
\* the role and type of the ports, returns a value or BAD_VALUE and never
\* reaches LOG_ALWAYS_FATAL.
C20_NoAbortFromEntryPoints ==
    op \in C20_EntryPoints => (res.ok \/ res = Unexpected) /\ res # Fatal

\* A wire port config of type MIX with a mix ext and a role that is no role has
\* been refused with BAD_VALUE, while the ext converter called directly with
\* that type and role aborts.
C20_Witness ==
    /\ op = "aidl2legacy_AudioPortConfig_audio_port_config"
    /\ arg.aidl.role = AudioPortRole_SINK + 1
    /\ arg.aidl.type = AudioPortType_MIX
    /\ arg.aidl.ext.tag = "mix"
    /\ aidl2legacy_AudioPortConfigExt(arg.aidl.ext, arg.aidl.type, arg.aidl.role, arg.junk.ext) = Fatal
    /\ res = Unexpected

\* The patch and the legacy port config with such a port are refused as well.
C20_StrayPortInPatch ==
    (op = "aidl2legacy_AudioPatch_audio_patch" /\ Len(arg.aidl.sinks) >= 1 /\ arg.aidl.sinks[1] = StrayWirePort(1)) => res = Unexpected

\* ---------------------------------------------------------------------------
\* Port config round trip.

\* Two address buffers hold the same string: they agree up to and including
\* the first NUL of the first.
SameAddress(a, b) ==
    LET nuls == NulIndexes(a, AUDIO_DEVICE_MAX_ADDRESS_LEN)
    IN  /\ nuls # {}
        /\ \A i \in 0 .. (AUDIO_DEVICE_MAX_ADDRESS_LEN - 1) : (\E k \in nuls : \A n \in nuls : k <= n /\ i <= k) => a[i] = b[i]

\* The fields of a legacy port config that its config mask, type and role
\* select are those of another.
SamePortConfig(legacy, back) ==
    /\ back.id = legacy.id
    /\ back.role = legacy.role
    /\ back.type = legacy.type
    /\ back.config_mask = legacy.config_mask
    /\ (BitAnd(legacy.config_mask, AUDIO_PORT_CONFIG_SAMPLE_RATE) # 0 => back.sample_rate = legacy.sample_rate)
    /\ (BitAnd(legacy.config_mask, AUDIO_PORT_CONFIG_CHANNEL_MASK) # 0 => back.channel_mask = legacy.channel_mask)
    /\ (BitAnd(legacy.config_mask, AUDIO_PORT_CONFIG_FORMAT) # 0 => back.format = legacy.format)
    /\ (BitAnd(legacy.config_mask, AUDIO_PORT_CONFIG_GAIN) # 0 => back.gain = legacy.gain)
    /\ (BitAnd(legacy.config_mask, AUDIO_PORT_CONFIG_FLAGS) # 0 => back.flags = legacy.flags)
    /\ (legacy.type = AUDIO_PORT_TYPE_DEVICE =>
          /\ back.ext.device.hw_module = legacy.ext.device.hw_module
          /\ back.ext.device.type = legacy.ext.device.type
          /\ SameAddress(legacy.ext.device.address, back.ext.device.address))
    /\ (legacy.type = AUDIO_PORT_TYPE_MIX =>
          /\ back.ext.mix.hw_module = legacy.ext.mix.hw_module
          /\ back.ext.mix.handle = legacy.ext.mix.handle
          /\ (legacy.role = AUDIO_PORT_ROLE_SOURCE => back.ext.mix.usecase.stream = legacy.ext.mix.usecase.stream)
          /\ (legacy.role = AUDIO_PORT_ROLE_SINK => back.ext.mix.usecase.source = legacy.ext.mix.usecase.source))
    /\ (legacy.type = AUDIO_PORT_TYPE_SESSION => back.ext.session.session = legacy.ext.session.session)

\* C21: every legacy port config that legacy2aidl_audio_port_config_AudioPortConfig
\* accepts converts back with aidl2legacy_AudioPortConfig_audio_port_config,
\* over whatever the result's storage held, to a legacy port config with the
\* same id, role, type and config mask, the same value in every field whose
\* bit is set in the config mask, and the same content in the ext member that
\* the type selects (for MIX, in the use-case member that the role selects).
C21_PortConfigRoundTrip ==
    (op = "legacy2aidl_audio_port_config_AudioPortConfig" /\ res.ok) =>
       \A junk \in JunkPortConfigs :
          LET back == aidl2legacy_AudioPortConfig_audio_port_config(res.v, junk)
          IN  back.ok /\ SamePortConfig(arg.legacy, back.v)

\* A source mix port config with the sample rate, channel mask, format and
\* flags bits set has been converted, and converts back to the same fields and
\* the same stream type.
C21_Witness ==
    /\ op = "legacy2aidl_audio_port_config_AudioPortConfig"
    /\ arg.legacy.config_mask = 23
    /\ arg.legacy.type = AUDIO_PORT_TYPE_MIX
    /\ arg.legacy.role = AUDIO_PORT_ROLE_SOURCE
    /\ arg.legacy.ext.mix.usecase.stream = AUDIO_STREAM_MUSIC
    /\ res.ok
    /\ unionGetField(res.v.ext, "mix").v.usecase = unionSet("stream", AudioStreamType_MUSIC)
    /\ LET back == aidl2legacy_AudioPortConfig_audio_port_config(res.v, JunkPortConfig(-77))
       IN  /\ back.ok
           /\ back.v.sample_rate = arg.legacy.sample_rate
           /\ back.v.flags = arg.legacy.flags
           /\ back.v.ext.mix.usecase.stream = AUDIO_STREAM_MUSIC

\* ---------------------------------------------------------------------------
\* The loop of convertBitmask.

\* The number of bits of the unsigned view of a word up to and including its
\* highest set bit.
BitLength(w) ==
    IF w < 0 THEN WordBits
    ELSE IF w = 0 THEN 0
    ELSE CHOOSE n \in 1 .. (WordBits - 1) : w \div (2 ^ (n - 1)) = 1

\* An invocation in the loop has made srcBitIndex iterations, at most one per
\* bit up to the highest set bit of the source, and what remains of the source
\* is the unsigned source less its srcBitIndex low bits; an invocation that
\* has returned a mask has made exactly one iteration for each of those bits.
LoopWithinWidth(t) ==
    /\ threads[t].pc = "while" =>
          /\ threads[t].local.srcBitIndex <= BitLength(threads[t].input.src)
          /\ BitLength(threads[t].local.usrc) = BitLength(threads[t].input.src) - threads[t].local.srcBitIndex
    /\ (threads[t].pc = "done" /\ threads[t].call \in LoopInstances) =>
          /\ threads[t].local.srcBitIndex < WordBits + 1
          /\ threads[t].local.srcBitIndex <= BitLength(threads[t].input.src)
          /\ (threads[t].result.ok => threads[t].local.srcBitIndex = BitLength(threads[t].input.src))

\* C22: the loop of convertBitmask terminates for every source mask, the
\* masks with the top bit set included, after at most as many iterations as
\* the source has bits: the source is shifted as an unsigned word, the loop
\* stops as soon as what remains is zero, and no bit above the highest set
\* bit is visited.
C22_LoopTerminates ==
    /\ [](\A t \in Threads : LoopWithinWidth(t))
    /\ \A t \in Threads : (threads[t].pc = "while") ~> (threads[t].pc = "done")

\* The loop has returned the mask of a source with only the top bit set after
\* 32 iterations.
C22_Witness ==
    /\ threads[1].pc = "done"
    /\ threads[1].call = TotalMaskCall
    /\ threads[1].input.src = INT32_MIN
    /\ threads[1].local.srcBitIndex = WordBits
    /\ threads[1].local.usrc = 0
    /\ threads[1].result = Ok(INT32_MIN)

\* ---------------------------------------------------------------------------
\* The Direction within one port config.

\* The union member of the I/O flags that a Direction selects.
FlagsMember(dir) == IF dir = Direction_INPUT THEN "input" ELSE "output"

\* The union member of the mix use case that a role selects.
UseCaseMember(role) ==
    CASE role = AudioPortRole_NONE -> "nothing"
      [] role = AudioPortRole_SOURCE -> "stream"
      [] role = AudioPortRole_SINK -> "source"

\* The number of gain values that a Direction selects.
GainValueCount(mode, channel_mask, dir) ==
    IF BitAnd(mode, AUDIO_GAIN_MODE_JOINT) # 0 THEN 1
    ELSE IF dir = Direction_INPUT THEN audio_channel_count_from_in_mask(channel_mask)
    ELSE audio_channel_count_from_out_mask(channel_mask)

C24_FlagsNeedDirection ==
    /\ op = "aidl2legacy_AudioPortConfig_audio_port_config" =>
          LET aidl == arg.aidl
          IN  /\ bitmaskIsSet(aidl.configMask, AudioPortConfigType_FLAGS) =>
                    /\ (res.ok => direction_AudioPortRole_AudioPortType(aidl.role, aidl.type).ok)
                    /\ ((aidl.type \in {AudioPortType_NONE, AudioPortType_SESSION} \/ aidl.role = AudioPortRole_NONE) => res = Unexpected)
              /\ (~bitmaskIsSet(aidl.configMask, AudioPortConfigType_FLAGS) /\ ~bitmaskIsSet(aidl.configMask, AudioPortConfigType_GAIN)) =>
                    (res.ok <=>
                       /\ aidl2legacy_AudioPortRole_audio_port_role_t(aidl.role).ok
                       /\ aidl2legacy_AudioPortType_audio_port_type_t(aidl.type).ok
                       /\ aidl2legacy_int32_t_config_mask(aidl.configMask).ok
                       /\ (bitmaskIsSet(aidl.configMask, AudioPortConfigType_SAMPLE_RATE) => convertIntegral_int32_to_uint32(aidl.sampleRate).ok)
                       /\ aidl2legacy_AudioPortConfigExt(aidl.ext, aidl.type, aidl.role, arg.junk.ext).ok)
    /\ op = "legacy2aidl_audio_port_config_AudioPortConfig" =>
          LET legacy == arg.legacy
          IN  /\ BitAnd(legacy.config_mask, AUDIO_PORT_CONFIG_FLAGS) # 0 =>
                    /\ (res.ok => direction_audio_port_role_t_audio_port_type_t(legacy.role, legacy.type).ok)
                    /\ ((legacy.type \in {AUDIO_PORT_TYPE_NONE, AUDIO_PORT_TYPE_SESSION} \/ legacy.role = AUDIO_PORT_ROLE_NONE) => res = Unexpected)
              /\ (BitAnd(legacy.config_mask, AUDIO_PORT_CONFIG_FLAGS) = 0 /\ BitAnd(legacy.config_mask, AUDIO_PORT_CONFIG_GAIN) = 0) =>
                    (res.ok <=>
                       /\ legacy2aidl_audio_port_role_t_AudioPortRole(legacy.role).ok
                       /\ legacy2aidl_audio_port_type_t_AudioPortType(legacy.type).ok
                       /\ legacy2aidl_config_mask_int32_t(legacy.config_mask).ok
                       /\ (BitAnd(legacy.config_mask, AUDIO_PORT_CONFIG_SAMPLE_RATE) # 0 => convertIntegral_uint32_to_int32(legacy.sample_rate).ok)
                       /\ legacy2aidl_AudioPortConfigExt(legacy.ext, legacy.type, legacy.role).ok)

\* A session port config with only the FLAGS bit set has been refused, and
\* the same record with no bit set converts.
C24_Witness ==
    /\ op = "aidl2legacy_AudioPortConfig_audio_port_config"
    /\ arg.aidl.type = AudioPortType_SESSION
    /\ arg.aidl.role = AudioPortRole_SOURCE
    /\ arg.aidl.configMask = enumToMask_index(AudioPortConfigType_FLAGS)
    /\ res = Unexpected
    /\ aidl2legacy_AudioPortConfig_audio_port_config([arg.aidl EXCEPT !.configMask = 0], arg.junk).ok

\* ---------------------------------------------------------------------------
\* Offload info.

\* C25: legacy2aidl_audio_offload_info_t_AudioOffloadInfo fails with
\* BAD_VALUE when size is less than the extent of the record up to and
\* including usage, whatever the fields hold; when the version is at least
\* 0.2 it also fails when size is less than the extent up to and including
\* sync_id; when the version is below 0.2 its result does not depend on
\* encapsulation_mode, content_id and sync_id, and a successful result has the
\* default encapsulationMode, contentId and syncId.
C25_OffloadSizeAndVersion ==
    op = "legacy2aidl_audio_offload_info_t_AudioOffloadInfo" =>
       LET legacy == arg.legacy
       IN  /\ legacy.size < AUDIO_OFFLOAD_INFO_SIZE_0_1 => res = Unexpected
           /\ (legacy.version >= AUDIO_OFFLOAD_INFO_VERSION_0_2 /\ legacy.size < AUDIO_OFFLOAD_INFO_SIZE_0_2) => res = Unexpected
           /\ legacy.version < AUDIO_OFFLOAD_INFO_VERSION_0_2 =>
                 /\ \A e \in {AUDIO_ENCAPSULATION_MODE_NONE, AUDIO_ENCAPSULATION_MODE_HANDLE, 7}, c \in {0, 5, -1} :
                       res = legacy2aidl_audio_offload_info_t_AudioOffloadInfo([legacy EXCEPT !.encapsulation_mode = e, !.content_id = c, !.sync_id = c])
                 /\ res.ok =>
                       /\ res.v.encapsulationMode = DefaultAudioOffloadInfo.encapsulationMode
                       /\ res.v.contentId = DefaultAudioOffloadInfo.contentId
                       /\ res.v.syncId = DefaultAudioOffloadInfo.syncId

\* A version 0.1 offload info of the version 0.1 size, whose encapsulation
\* mode names no mode, has been converted: the wire record has the default
\* encapsulation mode, content id and sync id.
C25_Witness ==
    /\ op = "legacy2aidl_audio_offload_info_t_AudioOffloadInfo"
    /\ arg.legacy.version = 1
    /\ arg.legacy.size = AUDIO_OFFLOAD_INFO_SIZE_0_1
    /\ arg.legacy.encapsulation_mode = 7
    /\ arg.legacy.sync_id = -1
    /\ res.ok
    /\ res.v.encapsulationMode = AudioEncapsulationMode_NONE
    /\ res.v.contentId = 0
    /\ res.v.syncId = 0

\* A version 0.2 offload info of a size between the two layouts has been
\* refused.
C25_RefusedBySize ==
    /\ op = "legacy2aidl_audio_offload_info_t_AudioOffloadInfo"
    /\ arg.legacy.version = AUDIO_OFFLOAD_INFO_VERSION_0_2
    /\ arg.legacy.size = AUDIO_OFFLOAD_INFO_SIZE_0_2 - 1
    /\ res = Unexpected
    /\ legacy2aidl_audio_offload_info_t_AudioOffloadInfo([arg.legacy EXCEPT !.size = AUDIO_OFFLOAD_INFO_SIZE_0_2]).ok

\* The wire offload info that a legacy record of the given version converts
\* to, when `aidl` is the wire record the legacy one was converted from.
OffloadInfoAfterRoundTrip(aidl) ==
    IF aidl.version >= AUDIO_OFFLOAD_INFO_VERSION_0_2 THEN aidl
    ELSE [aidl EXCEPT !.encapsulationMode = DefaultAudioOffloadInfo.encapsulationMode, !.contentId = DefaultAudioOffloadInfo.contentId, !.syncId = DefaultAudioOffloadInfo.syncId]

\* C26 (as stated): every wire offload info that aidl2legacy accepts, of every
\* version, converts back to a wire record equal to the original in every
\* field.
C26_OffloadRoundTripEveryVersion ==
    (op = "aidl2legacy_AudioOffloadInfo_audio_offload_info_t" /\ res.ok) =>
       \E back \in {legacy2aidl_audio_offload_info_t_AudioOffloadInfo(res.v)} : back.ok /\ back.v = arg.aidl

\* C26 (amended): every wire offload info that aidl2legacy accepts converts
\* back successfully (the size written passes both size checks); the result
\* equals the original in every field when the version is 0.2 or later, and in
\* every field but encapsulationMode, contentId and syncId, which are the
\* defaults, when the version is below 0.2.
C26_OffloadRoundTrip ==
    (op = "aidl2legacy_AudioOffloadInfo_audio_offload_info_t" /\ res.ok) =>
       /\ res.v.size >= AUDIO_OFFLOAD_INFO_SIZE_0_2
       /\ \E back \in {legacy2aidl_audio_offload_info_t_AudioOffloadInfo(res.v)} : back.ok /\ back.v = OffloadInfoAfterRoundTrip(arg.aidl)

\* A wire offload info of version 0.1 with a handle encapsulation mode, a
\* content id and a sync id has been converted: the legacy record carries the
\* three, and the record converted back has the defaults instead.
C26_Witness ==
    /\ op = "aidl2legacy_AudioOffloadInfo_audio_offload_info_t"
    /\ arg.aidl.version = 1
    /\ arg.aidl.encapsulationMode = AudioEncapsulationMode_HANDLE
    /\ arg.aidl.contentId = 5
    /\ arg.aidl.syncId = -1
    /\ res.ok
    /\ res.v.encapsulation_mode = AUDIO_ENCAPSULATION_MODE_HANDLE
    /\ \E back \in {legacy2aidl_audio_offload_info_t_AudioOffloadInfo(res.v)} :
          /\ back.ok
          /\ back.v.encapsulationMode = AudioEncapsulationMode_NONE
          /\ back.v.contentId = 0
          /\ back.v.syncId = 0
          /\ back.v.usage = arg.aidl.usage

\* A wire offload info of version 0.2 has been converted and converts back to
\* itself.
C26_Version_0_2 ==
    /\ op = "aidl2legacy_AudioOffloadInfo_audio_offload_info_t"
    /\ arg.aidl.version = AUDIO_OFFLOAD_INFO_VERSION_0_2
    /\ arg.aidl.encapsulationMode = AudioEncapsulationMode_HANDLE
    /\ res.ok
    /\ legacy2aidl_audio_offload_info_t_AudioOffloadInfo(res.v) = Ok(arg.aidl)

\* ---------------------------------------------------------------------------
\* The empty mask and the sentinel AUDIO_FLAG_NONE.

\* C27: legacy2aidl_audio_flags_mask_t_AudioFlag(AUDIO_FLAG_NONE) returns
\* BAD_VALUE, and every mask converter (config mask, gain mode, input flags,
\* output flags, attribute flags), in both directions, returns the mask 0 for
\* the mask 0.
C27_NoneOnlyAsEnum ==
    /\ (op = "legacy2aidl_audio_flags_mask_t_AudioFlag" /\ arg.value = AUDIO_FLAG_NONE) => res = Unexpected
    /\ (op \in MaskOps /\ arg = 0) => res = Ok(0)

\* The attribute flags mask 0 has been converted from legacy to wire, by the
\* converter whose per-value converter refuses the value 0.
C27_Witness ==
    /\ op = "legacy2aidl_audio_flags_mask_t_int32_t_mask"
    /\ arg = AUDIO_FLAG_NONE
    /\ res = Ok(0)
    /\ legacy2aidl_audio_flags_mask_t_AudioFlag(arg) = Unexpected

\* AUDIO_FLAG_NONE has been handed to the per-value converter and refused.
C27_NoneRefused ==
    /\ op = "legacy2aidl_audio_flags_mask_t_AudioFlag"
    /\ arg.value = AUDIO_FLAG_NONE
    /\ res = Unexpected

\* ---------------------------------------------------------------------------
\* Strings there and back.

\* The bytes of a wire string before its first NUL byte: what a C string
\* holding the bytes reads as.
BeforeFirstNul(s) ==
    LET nuls == {i \in 1 .. Len(s) : s[i] = 0}
    IN  IF nuls = {} THEN s ELSE SubSeq(s, 1, (CHOOSE i \in nuls : \A k \in nuls : i <= k) - 1)

\* The string read back from the buffer a call of aidl2legacy_string filled.
StringReadBack == legacy2aidl_string([null |-> FALSE, bytes |-> res.v], arg.maxSize)

\* C28 (as stated): for a capacity of at least 1 and every wire string of at
\* most maxSize - 1 bytes, NUL bytes included, aidl2legacy_string followed by
\* legacy2aidl_string succeeds and returns the string.
C28_StringRoundTripAnyBytes ==
    (op = "aidl2legacy_string" /\ arg.maxSize >= 1 /\ Len(arg.aidl) <= arg.maxSize - 1) =>
       res.ok /\ StringReadBack = Ok(arg.aidl)

\* C28 (amended): for a capacity of at least 1 and every wire string of at
\* most maxSize - 1 bytes, aidl2legacy_string followed by legacy2aidl_string
\* succeeds and returns the bytes of the string before its first NUL byte: the
\* string itself exactly when it holds no NUL byte.
C28_StringRoundTrip ==
    (op = "aidl2legacy_string" /\ arg.maxSize >= 1 /\ Len(arg.aidl) <= arg.maxSize - 1) =>
       /\ res.ok
       /\ StringReadBack = Ok(BeforeFirstNul(arg.aidl))
       /\ (StringReadBack = Ok(arg.aidl)) <=> (\A i \in 1 .. Len(arg.aidl) : arg.aidl[i] # 0)

\* The string "A\0" has been written to a buffer of three chars holding no
\* NUL byte before the call, and reads back as "A".
C28_Witness ==
    /\ op = "aidl2legacy_string"
    /\ arg.aidl = <<65, 0>>
    /\ arg.maxSize = 3
    /\ arg.dest[2] = 90
    /\ res.ok
    /\ StringReadBack = Ok(<<65>>)

\* The string "AB" has been written to a buffer of three chars holding no NUL
\* byte before the call, and reads back as "AB".
C28_WithoutNul ==
    /\ op = "aidl2legacy_string"
    /\ arg.aidl = <<65, 66>>
    /\ arg.maxSize = 3
    /\ arg.dest[2] = 90
    /\ res.ok
    /\ StringReadBack = Ok(<<65, 66>>)

\* C29 (as stated): aidl2legacy_string writes no char outside
\* dest[0 .. maxSize - 1], for every capacity from 0 on; with capacity 0 it
\* returns BAD_VALUE and writes nothing.
C29_WritesWithinBuffer ==
    op = "aidl2legacy_string" =>
       /\ touched \subseteq 0 .. (arg.maxSize - 1)
       /\ arg.maxSize = 0 => (res = Unexpected /\ touched = {})

\* A string of two bytes has been handed over with a buffer of capacity 0:
\* the call reports success and has stored to dest[0], dest[1] and dest[2].
C29_WritesBeyondEmptyBuffer ==
    /\ op = "aidl2legacy_string"
    /\ arg.maxSize = 0
    /\ arg.aidl = <<65, 66>>
    /\ res.ok
    /\ touched = 0 .. 2

\* With a capacity of at least 1 the chars written are within the buffer.
C29_WithinBufferFromOne ==
    (op = "aidl2legacy_string" /\ arg.maxSize >= 1) => touched \subseteq 0 .. (arg.maxSize - 1)

\* ---------------------------------------------------------------------------
\* Formats.

\* Whether the aggregate call of the state succeeds when the format of its
\* argument is f instead.
SucceedsWithFormat(f) ==
    CASE op = "aidl2legacy_AudioPortConfig_audio_port_config" -> aidl2legacy_AudioPortConfig_audio_port_config([arg.aidl EXCEPT !.format = f], arg.junk).ok
      [] op = "legacy2aidl_audio_port_config_AudioPortConfig" -> legacy2aidl_audio_port_config_AudioPortConfig([arg.legacy EXCEPT !.format = f]).ok
      [] op = "aidl2legacy_AudioIoDescriptor_AudioIoDescriptor" -> aidl2legacy_AudioIoDescriptor_AudioIoDescriptor([arg.aidl EXCEPT !.format = f], arg.SizeBits, arg.junk, arg.portJunk).ok
      [] op = "legacy2aidl_AudioIoDescriptor_AudioIoDescriptor" -> legacy2aidl_AudioIoDescriptor_AudioIoDescriptor([arg.legacy EXCEPT !.mFormat = f], arg.SizeBits).ok
      [] op = "aidl2legacy_AudioConfigBase_audio_config_base_t" -> aidl2legacy_AudioConfigBase_audio_config_base_t([arg.aidl EXCEPT !.format = f]).ok
      [] op = "legacy2aidl_audio_config_base_t_AudioConfigBase" -> legacy2aidl_audio_config_base_t_AudioConfigBase([arg.legacy EXCEPT !.format = f]).ok
      [] op = "aidl2legacy_AudioConfig_audio_config_t" -> aidl2legacy_AudioConfig_audio_config_t([arg.aidl EXCEPT !.format = f]).ok
      [] op = "legacy2aidl_audio_config_t_AudioConfig" -> legacy2aidl_audio_config_t_AudioConfig([arg.legacy EXCEPT !.format = f]).ok

FormatOps == {"aidl2legacy_AudioFormat_audio_format_t", "legacy2aidl_audio_format_t_AudioFormat"}

FormatCarriers ==
    {"aidl2legacy_AudioPortConfig_audio_port_config", "legacy2aidl_audio_port_config_AudioPortConfig",
     "aidl2legacy_AudioIoDescriptor_AudioIoDescriptor", "legacy2aidl_AudioIoDescriptor_AudioIoDescriptor",
     "aidl2legacy_AudioConfigBase_audio_config_base_t", "legacy2aidl_audio_config_base_t_AudioConfigBase",
     "aidl2legacy_AudioConfig_audio_config_t", "legacy2aidl_audio_config_t_AudioConfig"}

\* C30: the two format converters succeed on every word, those that name no
\* format included, and return the word they were given; and whether a port
\* config, an I/O descriptor, a config base or a config converts does not
\* depend on its format.
C30_FormatPassThrough ==
    /\ op \in FormatOps =>
          /\ res.ok
          /\ res.v = arg.value
          /\ \A i \in BitIndexes : TestBit(res.v, i) = TestBit(arg.value, i)
    /\ op \in FormatCarriers => \A f \in FormatWords : SucceedsWithFormat(f) = res.ok

\* A wire port config whose FORMAT bit is set has been converted, and converts
\* as well with a format that names no format and with all bits set; and the
\* format converter has returned all bits set for all bits set.
C30_Witness ==
    /\ op = "aidl2legacy_AudioPortConfig_audio_port_config"
    /\ bitmaskIsSet(arg.aidl.configMask, AudioPortConfigType_FORMAT)
    /\ res.ok
    /\ res.v.format = arg.aidl.format
    /\ SucceedsWithFormat(12345)
    /\ SucceedsWithFormat(-1)

\* The word with all bits set has been handed to the format converter.
C30_InvalidFormatConverts ==
    /\ op = "aidl2legacy_AudioFormat_audio_format_t"
    /\ arg.value = -1
    /\ res = Ok(-1)

====
